---- MODULE Spec2Model ----
(***************************************************************************)
(* The fabrik order saga (apps-py): Orders, Inventory, Fulfillment,        *)
(* Shipping Receiver and Shipping Processor, the four Kafka topics they    *)
(* exchange messages on, and the three PostgreSQL tables they share.       *)
(*                                                                         *)
(* A Python str is modelled as a sequence of tokens: the token ":" is the  *)
(* colon character, every other token is a colon-free piece of text.      *)
(* f"{a}:{b}" is concatenation and str.split(':') is computed on the       *)
(* token sequence.                                                         *)
(***************************************************************************)
EXTENDS Integers, Sequences, FiniteSets, TLC

(***************************************************************************)
(* Bounds of the model.                                                    *)
(***************************************************************************)
\* REST requests made by clients, offset commits lost by the bus,
\* messages of foreign producers, starts of processes and outages of the
\* broker, all together
MaxRequests == 2
\* Inventory Service processes consuming in inventory-group
NumInvConsumers == 2

VARIABLES
    orders,         \* table orders: id -> [product, quantity, status]
    inventory,      \* table inventory: product_name -> quantity
    shipments,      \* table shipments: id -> [order_id, status]
    topics,         \* <<group, topic>> -> the topic's messages not yet
                    \* committed by the group, oldest first
    invTask,        \* Inventory consumer -> position and locals of process_order
    brokerUp,       \* whether producer.send/flush reaches the broker
    applied,        \* order id -> op: the operation that last wrote the row's
                    \* status; update: the status field of the order-updates
                    \* message last applied to the row, << >> when none was
    cancelRequests, \* order ids for which cancel_order has been called
    reservations,   \* order id -> the decisions Inventory has taken for it
    warnings,       \* the "Invalid ... message format" warnings logged, as
                    \* <<handler, message>>
    requests,       \* how many of the MaxRequests events have happened
    chaos,          \* the last call of a fault-injection function: its
                    \* arguments and what it did
    shipTask,       \* the create_shipment requests between their INSERT and
                    \* their return: position and locals; in the runs with
                    \* place_order statement by statement, its requests
    procs,          \* service -> its process: what initialize() and
                    \* kafka_consumer_thread have done in it
    producer,       \* _kafka_producer of a process and the calls of
                    \* get_kafka_producer under way in its threads
    conns           \* store connections that are open: held by an operation
                    \* under way, dropped by an operation that has ended

vars == <<orders, inventory, shipments, topics, invTask, brokerUp, applied,
          cancelRequests, reservations, warnings, requests, chaos, shipTask,
          procs, producer, conns>>

(***************************************************************************)
(* Text.                                                                   *)
(***************************************************************************)
\* a str literal without a colon
S(x) == <<x>>

\* f"{a}:{b}"
Fmt2(a, b) == a \o <<":">> \o b

\* Fmt3 of a handler that puts the order id first
Fmt3_swapped(a, b, c) == b \o <<":">> \o a \o <<":">> \o c

\* f"{a}:{b}:{c}"
Fmt3(a, b, c) == a \o <<":">> \o b \o <<":">> \o c

\* message.split(':')
\* split of a handler that splits at the first colon only
split_once(s) ==
    IF \A i \in 1..Len(s) : s[i] # ":"
    THEN <<s>>
    ELSE LET i == CHOOSE k \in 1..Len(s) :
                      s[k] = ":" /\ \A j \in 1..(k - 1) : s[j] # ":"
         IN  <<SubSeq(s, 1, i - 1), SubSeq(s, i + 1, Len(s))>>

RECURSIVE split(_)
split(s) ==
    IF \A i \in 1..Len(s) : s[i] # ":"
    THEN <<s>>
    ELSE LET i == CHOOSE k \in 1..Len(s) :
                      s[k] = ":" /\ \A j \in 1..(k - 1) : s[j] # ":"
         IN  <<SubSeq(s, 1, i - 1)>> \o split(SubSeq(s, i + 1, Len(s)))

(***************************************************************************)
(* Identifiers.  uuid.uuid4() yields an id no row has yet: the n-th id     *)
(* generated is the n-th token below.                                      *)
(***************************************************************************)
OrderIdTokens == <<"o1", "o2", "o3", "o4">>
ShipmentIdTokens == <<"s1", "s2", "s3", "s4", "s5", "s6", "s7", "s8", "s9",
                      "s10", "s11", "s12">>

\* str(uuid.uuid4()) in place_order
new_order_id == <<OrderIdTokens[Cardinality(DOMAIN orders) + 1]>>

\* str(uuid.uuid4()) in create_shipment
new_shipment_id == <<ShipmentIdTokens[Cardinality(DOMAIN shipments) + 1]>>

\* an order id and a shipment id that no row ever has
UnknownOrderId == <<"o-none">>
UnknownShipmentId == <<"s-none">>

(***************************************************************************)
(* Store and bus.                                                          *)
(***************************************************************************)
\* the rows init_db_tables / seed_inventory put into table inventory
SeedInventory ==
    [p \in {"Widget A", "Widget B", "Widget C", "Gadget X", "Gadget Y"} |->
        CASE p = "Widget A" -> 100
          [] p = "Widget B" -> 50
          [] p = "Widget C" -> 25
          [] p = "Gadget X" -> 10
          [] p = "Gadget Y" -> 5]

\* request bodies of POST /api/orders, as <<product, quantity>>; a body
\* without them gets the defaults 'Widget' (a product with no inventory row)
\* and 1
OrderInputs == { <<"Gadget Y", 3>>, <<"Widget", 1>> }

\* payloads a producer outside the five services puts on a topic
ForeignMessages ==
    { S("abc"), << >>, S("o1"), Fmt2(UnknownOrderId, S("SHIPPED")) }
ForeignTopics == {"order-updates", "inventory-reserved"}

Topics == {"orders", "order-updates", "inventory-reserved", "shipments"}

\* KafkaConsumer(topics..., group_id=...) of the three consuming services;
\* no service subscribes to topic shipments, whose messages stay on it
Subscriptions ==
    { <<"inventory-group", "orders">>,
      <<"fulfillment-group", "orders">>,
      <<"fulfillment-group", "order-updates">>,
      <<"shipping-receiver-group", "inventory-reserved">>,
      <<"(no group)", "shipments">> }

InvConsumers == 1..NumInvConsumers

\* send_to_kafka on a bus where the services share one consumer group: one
\* of the subscribers of the topic gets the message
send_to_kafka_competing(tp, topic, message) ==
    IF \E s \in DOMAIN tp : s[2] = topic
    THEN LET one == CHOOSE s \in DOMAIN tp : s[2] = topic
         IN  [tp EXCEPT ![one] = Append(@, message)]
    ELSE tp

\* producer.send(topic, message); producer.flush(): every group subscribed
\* to the topic gets the message
send_to_kafka(tp, topic, message) ==
    [s \in DOMAIN tp |-> IF s[2] = topic THEN Append(tp[s], message) ELSE tp[s]]

\* try: send_to_kafka(t1, m1) except Exception: log
try_send1(tp, t1, m1) ==
    IF brokerUp THEN send_to_kafka(tp, t1, m1) ELSE tp

\* try: send_to_kafka(t1, m1); send_to_kafka(t2, m2) except Exception: log
try_send2(tp, t1, m1, t2, m2) ==
    IF brokerUp THEN send_to_kafka(send_to_kafka(tp, t1, m1), t2, m2) ELSE tp

\* the processes: one per service
Services ==
    {"orders", "inventory", "fulfillment", "shipping-processor",
     "shipping-receiver", "frontend"}

\* the services whose initialize() polls the store (all but the receiver)
HasStore(svc) == svc # "shipping-receiver"

\* the services whose initialize() starts kafka_consumer_thread
HasConsumer(svc) == svc \in {"inventory", "fulfillment", "shipping-receiver"}

\* group_id of the service's KafkaConsumer
ServiceOf(group) ==
    CASE group = "inventory-group" -> "inventory"
      [] group = "fulfillment-group" -> "fulfillment"
      [] group = "shipping-receiver-group" -> "shipping-receiver"

\* a payload of bytes that are not UTF-8
Undecodable == <<"\\xff">>

\* value_deserializer=lambda m: m.decode('utf-8') returns the text
decodes(payload) == \A i \in 1..Len(payload) : payload[i] # "\\xff"

\* the group's consumer is in its loop and the topic has a message for it
Fetched(group, topic) ==
    /\ procs[ServiceOf(group)].consumer = "consuming"
    /\ topics[<<group, topic>>] # << >>

\* for message in consumer: the group's next message of the topic, fetched
\* and deserialized
HasNext(group, topic) ==
    /\ Fetched(group, topic)
    /\ decodes(Head(topics[<<group, topic>>]))
NextMessage(group, topic) == Head(topics[<<group, topic>>])

\* enable_auto_commit=True: the offset of a handed-over message is committed
\* later, in the background; when the commit is lost (commit = FALSE) the
\* message stays the group's next one and is delivered again
CanHandOver(commit) == commit \/ requests < MaxRequests
HandOver(tp, group, topic, commit) ==
    IF commit THEN [tp EXCEPT ![<<group, topic>>] = Tail(@)] ELSE tp
Counted(commit) == IF commit THEN requests ELSE requests + 1

IdleTask == [pc |-> "idle"]

\* no fault-injection function has been called
NoChaos == [fn |-> "none"]

\* a polling loop that has not run
NotPolled == [attempts |-> 0, ok |-> FALSE]

\* a process in steady state: initialize() found the store at its first
\* attempt, kafka_consumer_thread found the bus at its first attempt
Started(svc) ==
    [consumer |-> IF HasConsumer(svc) THEN "consuming" ELSE "none",
     threads |-> IF HasConsumer(svc) THEN 1 ELSE 0,
     db |-> IF HasStore(svc) THEN [attempts |-> 1, ok |-> TRUE] ELSE NotPolled,
     bus |-> IF HasConsumer(svc) THEN [attempts |-> 1, ok |-> TRUE]
             ELSE NotPolled]

\* the threads of a process that call get_kafka_producer
NumThreads == 3
Threads == 1..NumThreads

\* _kafka_producer = None; handle 0 is None, handle n the n-th KafkaProducer
\* constructed in the process
NoProducer ==
    [handle |-> 0, constructed |-> 0,
     pc |-> [t \in Threads |-> "idle"],
     returned |-> [t \in Threads |-> 0]]

NoConns == [held |-> 0, dropped |-> 0]

Init ==
    /\ orders = << >>
    /\ inventory = SeedInventory
    /\ shipments = << >>
    /\ topics = [s \in Subscriptions |-> << >>]
    /\ invTask = [c \in InvConsumers |-> IdleTask]
    /\ brokerUp = TRUE
    /\ applied = << >>
    /\ cancelRequests = {}
    /\ reservations = << >>
    /\ warnings = {}
    /\ requests = 0
    /\ chaos = NoChaos
    /\ shipTask = {}
    /\ procs = [svc \in Services |-> Started(svc)]
    /\ producer = NoProducer
    /\ conns = NoConns

(***************************************************************************)
(* Orders Service.                                                         *)
(***************************************************************************)
\* what place_order returns
place_order_response(order_id) ==
    [code |-> 201, id |-> order_id, status |-> S("PENDING")]

place_order(product, quantity) ==
    LET order_id == new_order_id IN
    /\ requests < MaxRequests
    /\ requests' = requests + 1
    /\ orders' = orders @@ (order_id :>
                    [product |-> product, quantity |-> quantity,
                     status |-> S("PENDING")])
    /\ applied' = applied @@ (order_id :> [op |-> "place", update |-> << >>])
    /\ topics' = try_send2(topics, "orders", order_id,
                           "order-updates", Fmt2(order_id, S("CREATED")))
    /\ reservations' = reservations @@ (order_id :> << >>)
    /\ UNCHANGED <<inventory, shipments, invTask, brokerUp, procs, producer,
                   conns, chaos, shipTask, cancelRequests, warnings>>

\* rows_updated of a handler that does not look at the row count
rows_updated_ignored(order_id) == 1

\* cursor.rowcount of cancel_order's UPDATE
rows_updated(order_id) == IF order_id \in DOMAIN orders THEN 1 ELSE 0

\* what cancel_order returns
cancel_order_response(order_id) ==
    IF rows_updated(order_id) = 0
    THEN [code |-> 404, error |-> "Order not found"]
    ELSE [code |-> 200, id |-> order_id, status |-> S("CANCELLED")]

\* cancel_announced of a handler that leaves the send out
cancel_not_announced(order_id) == topics

\* the topics after cancel_order's send
cancel_announced(order_id) ==
    try_send1(topics, "order-updates", Fmt2(order_id, S("CANCELLED")))

\* cancel_order of a handler that puts the order's quantity back
cancel_order_restocking(order_id) ==
    /\ requests < MaxRequests
    /\ requests' = requests + 1
    /\ cancelRequests' = cancelRequests \cup {order_id}
    /\ IF rows_updated(order_id) = 0
       THEN UNCHANGED <<orders, applied, topics, inventory>>
       ELSE /\ orders' = [o \in DOMAIN orders |->
                           IF o = order_id
                           THEN [orders[o] EXCEPT !.status = S("CANCELLED")]
                           ELSE orders[o]]
            /\ applied' = [o \in DOMAIN applied |->
                            IF o = order_id
                            THEN [applied[o] EXCEPT !.op = "cancel"]
                            ELSE applied[o]]
            /\ topics' = cancel_announced(order_id)
            /\ inventory' = [p \in DOMAIN inventory |->
                               IF p = orders[order_id].product
                               THEN inventory[p] + orders[order_id].quantity
                               ELSE inventory[p]]
    /\ UNCHANGED <<shipments, invTask, brokerUp, procs, producer, conns,
                   chaos, shipTask, reservations, warnings>>

cancel_order(order_id) ==
    /\ requests < MaxRequests
    /\ requests' = requests + 1
    /\ cancelRequests' = cancelRequests \cup {order_id}
    /\ IF rows_updated(order_id) = 0
       THEN UNCHANGED <<orders, applied, topics>>
       ELSE /\ orders' = [o \in DOMAIN orders |->
                           IF o = order_id
                           THEN [orders[o] EXCEPT !.status = S("CANCELLED")]
                           ELSE orders[o]]
            /\ applied' = [o \in DOMAIN applied |->
                            IF o = order_id
                            THEN [applied[o] EXCEPT !.op = "cancel"]
                            ELSE applied[o]]
            /\ topics' = cancel_announced(order_id)
    /\ UNCHANGED <<inventory, shipments, invTask, brokerUp, procs, producer,
                   conns, chaos, shipTask, reservations, warnings>>

(***************************************************************************)
(* Inventory Service.  process_order reads the order and the level, then   *)
(* decides and writes: two steps, so that the consumers of the group       *)
(* interleave between the SELECT and the UPDATE.                           *)
(***************************************************************************)
\* process_order up to the SELECT ... FROM inventory
inventory_read(c, commit) ==
    /\ invTask[c].pc = "idle"
    /\ HasNext("inventory-group", "orders")
    /\ CanHandOver(commit)
    /\ LET order_id == NextMessage("inventory-group", "orders") IN
       /\ topics' = HandOver(topics, "inventory-group", "orders", commit)
       /\ requests' = Counted(commit)
       /\ IF order_id \in DOMAIN orders
          THEN LET product == orders[order_id].product IN
               /\ conns' = [conns EXCEPT !.held = @ + 1]
               /\ invTask' = [invTask EXCEPT ![c] =
                   [pc |-> "checked", order_id |-> order_id,
                    product |-> product,
                    quantity |-> orders[order_id].quantity,
                    inv_row |-> IF product \in DOMAIN inventory
                                THEN <<inventory[product]>> ELSE << >>]]
          ELSE UNCHANGED <<invTask, conns>>
    /\ UNCHANGED <<orders, inventory, shipments, brokerUp, procs, producer,
                   chaos, shipTask, applied, cancelRequests, reservations,
                   warnings>>

\* has_stock of a handler that takes any stock at all to be enough
has_some_stock(t) == t.inv_row # << >> /\ t.inv_row[1] > 0

\* has_stock of a handler that reserves nothing for an order that is
\* cancelled or flagged
has_stock_of_live_order(t) ==
    /\ t.inv_row # << >> /\ t.inv_row[1] >= t.quantity
    /\ orders[t.order_id].status \notin {S("CANCELLED"), S("FRAUD_DETECTED")}

\* if inv_row and inv_row[0] >= quantity
has_stock(t) == t.inv_row # << >> /\ t.inv_row[1] >= t.quantity

\* decremented of a handler that takes one unit whatever the quantity
decremented_by_one(inv, product, quantity) ==
    [inv EXCEPT ![product] = @ - 1]

\* decremented of a handler that announces without writing the level
decremented_not_written(inv, product, quantity) == inv

\* UPDATE inventory SET quantity = quantity - %s WHERE product_name = %s
decremented(inv, product, quantity) ==
    [inv EXCEPT ![product] = @ - quantity]

\* process_order from the comparison on
inventory_write(c) ==
    /\ invTask[c].pc = "checked"
    /\ LET t == invTask[c] IN
       IF has_stock(t)
       THEN /\ inventory' = decremented(inventory, t.product, t.quantity)
            /\ reservations' = [reservations EXCEPT ![t.order_id] =
                                    Append(@, "RESERVED")]
            /\ topics' = try_send2(topics,
                   "inventory-reserved", Fmt2(t.order_id, S("RESERVED")),
                   "order-updates", Fmt2(t.order_id, S("INVENTORY_RESERVED")))
       ELSE /\ topics' = try_send1(topics, "order-updates",
                                   Fmt2(t.order_id, S("OUT_OF_STOCK")))
            /\ reservations' = [reservations EXCEPT ![t.order_id] =
                                    Append(@, "OUT_OF_STOCK")]
            /\ UNCHANGED inventory
    /\ invTask' = [invTask EXCEPT ![c] = IdleTask]
    /\ conns' = [conns EXCEPT !.held = @ - 1]
    /\ UNCHANGED <<orders, shipments, brokerUp, procs, producer, chaos,
                   shipTask, applied, cancelRequests, warnings, requests>>

(***************************************************************************)
(* Fulfillment Service.                                                    *)
(***************************************************************************)
\* fraud_checked of a handler that writes only when it detects fraud
fraud_checked_only_detected(order_id, fraud) ==
    IF order_id \in DOMAIN orders /\ fraud
    THEN [orders EXCEPT ![order_id].status = S("FRAUD_DETECTED")]
    ELSE orders

\* fraud_checked of a handler that leaves the order as it is
fraud_checked_skipped(order_id, fraud) == orders

\* table orders after process_order(order_id); fraud: random.random() > 0.9
fraud_checked(order_id, fraud) ==
    IF order_id \in DOMAIN orders
    THEN [orders EXCEPT ![order_id].status =
             IF fraud THEN S("FRAUD_DETECTED") ELSE S("FRAUD_CHECK_PASSED")]
    ELSE orders

\* the consumer loop's branch topic == 'orders'
fulfillment_process_order(fraud, commit) ==
    /\ HasNext("fulfillment-group", "orders")
    /\ CanHandOver(commit)
    /\ LET order_id == NextMessage("fulfillment-group", "orders") IN
       /\ topics' = HandOver(topics, "fulfillment-group", "orders", commit)
       /\ requests' = Counted(commit)
       /\ orders' = fraud_checked(order_id, fraud)
       /\ applied' = IF order_id \in DOMAIN orders
                     THEN [applied EXCEPT ![order_id].op = "fraud"]
                     ELSE applied
    /\ UNCHANGED <<inventory, shipments, invTask, brokerUp, procs, producer,
                   conns, chaos, shipTask, cancelRequests, reservations,
                   warnings>>

\* order_updated of a handler that does not write a CANCELLED order again
order_updated_unless_cancelled(message) ==
    LET parts == split(message) IN
    IF Len(parts) < 2
    THEN orders
    ELSE LET order_id == parts[1]
             new_status == parts[2]
         IN  IF order_id \in DOMAIN orders
                /\ orders[order_id].status # S("CANCELLED")
             THEN [orders EXCEPT ![order_id].status = new_status]
             ELSE orders

\* order_updated of a handler that takes a message of one field as an
\* order id with an unknown status
order_updated_lenient(message) ==
    LET parts == split(message)
        order_id == parts[1]
        new_status == IF Len(parts) < 2 THEN S("UNKNOWN") ELSE parts[2]
    IN  IF order_id \in DOMAIN orders
        THEN [orders EXCEPT ![order_id].status = new_status]
        ELSE orders

\* order_updated of a handler that creates the row it does not find
order_updated_upsert(message) ==
    LET parts == split(message) IN
    IF Len(parts) < 2
    THEN orders
    ELSE LET order_id == parts[1]
             new_status == parts[2]
         IN  IF order_id \in DOMAIN orders
             THEN [orders EXCEPT ![order_id].status = new_status]
             ELSE orders @@ (order_id :> [product |-> "Widget",
                                          quantity |-> 1,
                                          status |-> new_status])

\* table orders after process_order_update(message)
order_updated(message) ==
    LET parts == split(message) IN
    IF Len(parts) < 2
    THEN orders
    ELSE LET order_id == parts[1]
             new_status == parts[2]
         IN  IF order_id \in DOMAIN orders
             THEN [orders EXCEPT ![order_id].status = new_status]
             ELSE orders

\* the consumer loop's branch topic == 'order-updates'
process_order_update(commit) ==
    /\ HasNext("fulfillment-group", "order-updates")
    /\ CanHandOver(commit)
    /\ LET message == NextMessage("fulfillment-group", "order-updates")
           parts == split(message)
       IN  /\ topics' = HandOver(topics, "fulfillment-group", "order-updates",
                                 commit)
           /\ requests' = Counted(commit)
           /\ orders' = order_updated(message)
           /\ applied' = IF Len(parts) >= 2 /\ parts[1] \in DOMAIN orders
                         THEN [applied EXCEPT ![parts[1]] =
                                  [op |-> "update", update |-> <<parts[2]>>]]
                         ELSE applied
           /\ warnings' = IF Len(parts) < 2
                          THEN warnings \cup {<<"process_order_update", message>>}
                          ELSE warnings
    /\ UNCHANGED <<inventory, shipments, invTask, brokerUp, procs, producer,
                   conns, chaos, shipTask, cancelRequests, reservations>>

(***************************************************************************)
(* Shipping Processor.                                                     *)
(***************************************************************************)
\* table shipments after create_shipment's INSERT
shipment_inserted(order_id) ==
    shipments @@ (new_shipment_id :>
                     [order_id |-> order_id, status |-> S("CREATED")])

\* the topics after create_shipment's two sends
shipment_announced(tp, order_id) ==
    try_send2(tp,
              "shipments", Fmt3(new_shipment_id, order_id, S("CREATED")),
              "order-updates", Fmt2(order_id, S("SHIPMENT_CREATED")))

\* POST /api/shipments by a client
create_shipment(order_id) ==
    /\ requests < MaxRequests
    /\ requests' = requests + 1
    /\ shipments' = shipment_inserted(order_id)
    /\ topics' = shipment_announced(topics, order_id)
    /\ UNCHANGED <<orders, inventory, invTask, brokerUp, procs, producer,
                   conns, chaos, shipTask, applied, cancelRequests,
                   reservations, warnings>>

\* what ship_shipment and deliver_shipment return
advance_response(shipment_id, new_status) ==
    IF shipment_id \notin DOMAIN shipments
    THEN [code |-> 404, error |-> "Shipment not found"]
    ELSE [code |-> 200, id |-> shipment_id, status |-> new_status]

\* the body ship_shipment and deliver_shipment share
advance_shipment(shipment_id, new_status) ==
    /\ requests < MaxRequests
    /\ requests' = requests + 1
    /\ IF shipment_id \notin DOMAIN shipments
       THEN UNCHANGED <<shipments, topics>>
       ELSE LET order_id == shipments[shipment_id].order_id IN
            /\ shipments' = [shipments EXCEPT ![shipment_id].status = new_status]
            /\ topics' = try_send2(topics,
                   "shipments", Fmt3(shipment_id, order_id, new_status),
                   "order-updates", Fmt2(order_id, new_status))
    /\ UNCHANGED <<orders, inventory, invTask, brokerUp, procs, producer,
                   conns, chaos, shipTask, applied, cancelRequests,
                   reservations, warnings>>

ship_shipment(shipment_id) == advance_shipment(shipment_id, S("SHIPPED"))

deliver_shipment(shipment_id) == advance_shipment(shipment_id, S("DELIVERED"))

(***************************************************************************)
(* Shipping Receiver.  requests.post(.../api/shipments) is synchronous:    *)
(* the processor's create_shipment runs within the receiver's step.        *)
(***************************************************************************)
\* calls_processor of a handler that does not look at the status field
calls_processor_any(message) == Len(split(message)) >= 2

\* whether process_inventory_reserved(message) calls the processor
calls_processor(message) ==
    LET parts == split(message) IN
    Len(parts) >= 2 /\ parts[2] = S("RESERVED")

process_inventory_reserved(commit) ==
    /\ HasNext("shipping-receiver-group", "inventory-reserved")
    /\ CanHandOver(commit)
    /\ LET message == NextMessage("shipping-receiver-group", "inventory-reserved")
           handed == HandOver(topics, "shipping-receiver-group",
                              "inventory-reserved", commit)
       IN  /\ requests' = Counted(commit)
           /\ warnings' = IF Len(split(message)) < 2
                          THEN warnings \cup
                                  {<<"process_inventory_reserved", message>>}
                          ELSE warnings
           /\ IF calls_processor(message)
              THEN LET order_id == split(message)[1] IN
                   /\ shipments' = shipment_inserted(order_id)
                   /\ topics' = shipment_announced(handed, order_id)
              ELSE /\ topics' = handed
                   /\ UNCHANGED shipments
    /\ UNCHANGED <<orders, inventory, invTask, brokerUp, procs, producer,
                   conns, chaos, shipTask, applied, cancelRequests,
                   reservations>>

(***************************************************************************)
(* A producer outside the five services publishes on a topic.              *)
(***************************************************************************)
foreign_publish(topic, message) ==
    /\ requests < MaxRequests
    /\ requests' = requests + 1
    /\ topics' = send_to_kafka(topics, topic, message)
    /\ UNCHANGED <<orders, inventory, shipments, invTask, brokerUp, procs,
                   producer, conns, chaos, shipTask, applied, cancelRequests,
                   reservations, warnings>>

OrderIdInputs == DOMAIN orders \cup {UnknownOrderId}
ShipmentIdInputs == DOMAIN shipments \cup {UnknownShipmentId}

Next ==
    \/ \E <<p, q>> \in OrderInputs : place_order(p, q)
    \/ \E id \in OrderIdInputs : cancel_order(id)
    \/ \E c \in InvConsumers, commit \in BOOLEAN : inventory_read(c, commit)
    \/ \E c \in InvConsumers : inventory_write(c)
    \/ \E fraud, commit \in BOOLEAN : fulfillment_process_order(fraud, commit)
    \/ \E commit \in BOOLEAN : process_order_update(commit)
    \/ \E id \in OrderIdInputs : create_shipment(id)
    \/ \E id \in ShipmentIdInputs : ship_shipment(id)
    \/ \E id \in ShipmentIdInputs : deliver_shipment(id)
    \/ \E commit \in BOOLEAN : process_inventory_reserved(commit)

\* the five services, their clients and the bus
Spec == Init /\ [][Next]_vars

\* the steps of Next with one consumer in the inventory group (what a
\* foreign message does to a consumer does not depend on the size of
\* that group), and the foreign producers
NextExt ==
    \/ \E <<p, q>> \in OrderInputs : place_order(p, q)
    \/ \E id \in OrderIdInputs : cancel_order(id)
    \/ \E commit \in BOOLEAN : inventory_read(1, commit)
    \/ inventory_write(1)
    \/ \E fraud, commit \in BOOLEAN : fulfillment_process_order(fraud, commit)
    \/ \E commit \in BOOLEAN : process_order_update(commit)
    \/ \E id \in OrderIdInputs : create_shipment(id)
    \/ \E id \in ShipmentIdInputs : ship_shipment(id)
    \/ \E id \in ShipmentIdInputs : deliver_shipment(id)
    \/ \E commit \in BOOLEAN : process_inventory_reserved(commit)
    \/ \E t \in ForeignTopics, m \in ForeignMessages : foreign_publish(t, m)

\* the same, with foreign producers on the topics
SpecExt == Init /\ [][NextExt]_vars

(***************************************************************************)
(* Fault injection (common/chaos.py).  A function reads its rate/delay     *)
(* pair from the process environment at every call and draws once;  draw   *)
(* is the integer part of random.random() * 100, so that for an integer    *)
(* rate  random.random() * 100 < rate  is  draw < rate.                    *)
(***************************************************************************)
\* os.environ.get(name) when the variable is not set
None == "<None>"

\* values of an environment variable
EnvValues == { None, "", "abc", "0", "50", "100", "-5", "2.5" }

\* integer parts of random.random() * 100
Draws == { 0, 49, 50, 99 }

\* if rate_str: a str is true unless it is empty
truthy(str) == str # None /\ str # ""

\* int(str) returns rather than raising ValueError
is_int(str) == str \in { "0", "50", "100", "-5" }

\* int(str)
int(str) ==
    CASE str = "0" -> 0
      [] str = "50" -> 50
      [] str = "100" -> 100
      [] str = "-5" -> 0 - 5

\* what a call did: the value it returned or the exception it raised, the
\* milliseconds it slept and the iterations of the heavy query it ran
Returned(value, slept, iterations) ==
    [returned |-> value, raised |-> "", slept |-> slept,
     iterations |-> iterations]
Raised(exception) ==
    [returned |-> FALSE, raised |-> exception, slept |-> 0, iterations |-> 0]

\* time.sleep(delay_ms / 1000.0) raises ValueError for a negative length,
\* which the function's except ValueError swallows
apply_slowdown(rate_str, delay_str, draw) ==
    IF truthy(rate_str) /\ truthy(delay_str)
    THEN IF ~is_int(rate_str) \/ ~is_int(delay_str)
         THEN Returned(FALSE, 0, 0)
         ELSE LET rate == int(rate_str)
                  delay_ms == int(delay_str)
              IN  IF draw < rate
                  THEN IF delay_ms < 0
                       THEN Returned(FALSE, 0, 0)
                       ELSE Returned(TRUE, delay_ms, 0)
                  ELSE Returned(FALSE, 0, 0)
    ELSE Returned(FALSE, 0, 0)

\* except Exception catches the ValueError of int() as well as a failure
\* of the query, and raises RuntimeError
apply_db_slowdown(rate_str, delay_str, draw, db_connection, query_fails) ==
    IF truthy(rate_str) /\ truthy(delay_str) /\ db_connection
    THEN IF ~is_int(rate_str) \/ ~is_int(delay_str)
         THEN Raised("RuntimeError")
         ELSE LET rate == int(rate_str)
                  delay_ms == int(delay_str)
              IN  IF draw < rate
                  THEN IF query_fails
                       THEN Raised("RuntimeError")
                       ELSE Returned(TRUE, 0, delay_ms * 5000)
                  ELSE Returned(FALSE, 0, 0)
    ELSE Returned(FALSE, 0, 0)

\* apply_msg_slowdown of a function that compares with <=
apply_msg_slowdown_inclusive(rate_str, delay_str, draw) ==
    IF truthy(rate_str) /\ truthy(delay_str)
    THEN IF ~is_int(rate_str) \/ ~is_int(delay_str)
         THEN Returned(FALSE, 0, 0)
         ELSE IF draw <= int(rate_str) /\ int(delay_str) >= 0
              THEN Returned(TRUE, int(delay_str), 0)
              ELSE Returned(FALSE, 0, 0)
    ELSE Returned(FALSE, 0, 0)

apply_msg_slowdown(rate_str, delay_str, draw) ==
    IF truthy(rate_str) /\ truthy(delay_str)
    THEN IF ~is_int(rate_str) \/ ~is_int(delay_str)
         THEN Returned(FALSE, 0, 0)
         ELSE LET rate == int(rate_str)
                  delay_ms == int(delay_str)
              IN  IF draw < rate
                  THEN IF delay_ms < 0
                       THEN Returned(FALSE, 0, 0)
                       ELSE Returned(TRUE, delay_ms, 0)
                  ELSE Returned(FALSE, 0, 0)
    ELSE Returned(FALSE, 0, 0)

\* the record of a call in variable chaos
ChaosCall(fn, rate_str, delay_str, draw, db_connection, query_fails, result) ==
    [fn |-> fn, rate_str |-> rate_str, delay_str |-> delay_str,
     draw |-> draw, db_connection |-> db_connection,
     query_fails |-> query_fails, result |-> result]

SagaVarsButProducer ==
    <<orders, inventory, shipments, topics, invTask, brokerUp, applied,
      cancelRequests, reservations, warnings, requests, shipTask, procs,
      conns>>

SagaVarsButConns ==
    <<orders, inventory, shipments, topics, invTask, brokerUp, applied,
      cancelRequests, reservations, warnings, requests, shipTask, procs,
      producer>>

SagaVars == <<orders, inventory, shipments, topics, invTask, brokerUp,
              applied, cancelRequests, reservations, warnings, requests,
              shipTask, procs, producer, conns>>

\* a service calls apply_slowdown
call_apply_slowdown(rate_str, delay_str, draw) ==
    /\ chaos' = ChaosCall("apply_slowdown", rate_str, delay_str, draw, TRUE,
                          FALSE, apply_slowdown(rate_str, delay_str, draw))
    /\ UNCHANGED SagaVars

\* a service calls apply_db_slowdown
call_apply_db_slowdown(rate_str, delay_str, draw, db_connection, query_fails) ==
    /\ chaos' = ChaosCall("apply_db_slowdown", rate_str, delay_str, draw,
                          db_connection, query_fails,
                          apply_db_slowdown(rate_str, delay_str, draw,
                                            db_connection, query_fails))
    /\ UNCHANGED SagaVars

\* a service calls apply_msg_slowdown
call_apply_msg_slowdown(rate_str, delay_str, draw) ==
    /\ chaos' = ChaosCall("apply_msg_slowdown", rate_str, delay_str, draw,
                          TRUE, FALSE,
                          apply_msg_slowdown(rate_str, delay_str, draw))
    /\ UNCHANGED SagaVars

NextChaos ==
    \/ \E r, d \in EnvValues, draw \in Draws : call_apply_slowdown(r, d, draw)
    \/ \E r, d \in EnvValues, draw \in Draws, conn, fails \in BOOLEAN :
          call_apply_db_slowdown(r, d, draw, conn, fails)
    \/ \E r, d \in EnvValues, draw \in Draws :
          call_apply_msg_slowdown(r, d, draw)

\* the fault-injection functions, called under every configuration
SpecChaos == Init /\ [][NextChaos]_vars

(***************************************************************************)
(* The call sites of apply_db_slowdown: the handlers with the fault        *)
(* injection configured.  x is what the call at the site finds: the pair   *)
(* in the environment, its draw and whether the heavy query fails.         *)
(***************************************************************************)
SiteChaos ==
    { [rate_str |-> None, delay_str |-> None, draw |-> 0, query_fails |-> FALSE],
      [rate_str |-> "100", delay_str |-> "50", draw |-> 0, query_fails |-> FALSE],
      [rate_str |-> "100", delay_str |-> "50", draw |-> 0, query_fails |-> TRUE],
      [rate_str |-> "abc", delay_str |-> "50", draw |-> 0, query_fails |-> FALSE] }

\* apply_db_slowdown(conn, ...) at a site; get_db_connection() has returned
\* a connection
db_slowdown_at(x) ==
    apply_db_slowdown(x.rate_str, x.delay_str, x.draw, TRUE, x.query_fails)

db_slowdown_call(x) ==
    ChaosCall("apply_db_slowdown", x.rate_str, x.delay_str, x.draw, TRUE,
              x.query_fails, db_slowdown_at(x))

\* the RuntimeError leaves a REST handler: the request is answered 500
request_fails(x) ==
    /\ requests < MaxRequests
    /\ requests' = requests + 1
    /\ chaos' = db_slowdown_call(x)
    /\ conns' = [conns EXCEPT !.dropped = @ + 1]
    /\ UNCHANGED <<orders, inventory, shipments, topics, invTask, brokerUp,
                   procs, producer, applied, cancelRequests, reservations,
                   warnings, shipTask>>

\* the RuntimeError is caught by process_order's except Exception: the
\* message is logged and given up
message_fails(group, topic, commit, x) ==
    /\ topics' = HandOver(topics, group, topic, commit)
    /\ requests' = Counted(commit)
    /\ chaos' = db_slowdown_call(x)
    /\ UNCHANGED <<orders, inventory, shipments, invTask, brokerUp, procs,
                   producer, conns, applied, cancelRequests, reservations,
                   warnings, shipTask>>

\* orders-py place_order
place_order_chaos(product, quantity, x) ==
    IF db_slowdown_at(x).raised # ""
    THEN request_fails(x)
    ELSE place_order(product, quantity)

\* table orders after place_order's INSERT
order_inserted(product, quantity) ==
    orders @@ (new_order_id :>
                  [product |-> product, quantity |-> quantity,
                   status |-> S("PENDING")])

\* the topics after place_order's two sends
order_announced ==
    try_send2(topics, "orders", new_order_id,
              "order-updates", Fmt2(new_order_id, S("CREATED")))

\* frontend-py checkout: a RuntimeError of the call is caught and logged as
\* a warning, and the order is posted to the Orders Service, whose
\* place_order makes its own call (at_orders)
checkout(product, quantity, x, at_orders) ==
    /\ requests < MaxRequests
    /\ requests' = requests + 1
    /\ warnings' = IF db_slowdown_at(x).raised # ""
                   THEN warnings \cup {<<"checkout", S("DB chaos check failed")>>}
                   ELSE warnings
    /\ IF db_slowdown_at(at_orders).raised # ""
       THEN /\ chaos' = db_slowdown_call(at_orders)
            /\ conns' = [conns EXCEPT !.dropped = @ + 1]
            /\ UNCHANGED <<orders, applied, topics, reservations>>
       ELSE /\ orders' = order_inserted(product, quantity)
            /\ applied' = applied @@
                             (new_order_id :> [op |-> "place", update |-> << >>])
            /\ topics' = order_announced
            /\ reservations' = reservations @@ (new_order_id :> << >>)
            /\ UNCHANGED <<chaos, conns>>
    /\ UNCHANGED <<inventory, shipments, invTask, brokerUp, procs, producer,
                   cancelRequests, shipTask>>

\* shipping-processor-py create_shipment
create_shipment_chaos(order_id, x) ==
    IF db_slowdown_at(x).raised # ""
    THEN request_fails(x)
    ELSE create_shipment(order_id)

\* inventory-py process_order
inventory_process_order_chaos(c, commit, x) ==
    IF db_slowdown_at(x).raised # ""
    THEN /\ invTask[c].pc = "idle"
         /\ HasNext("inventory-group", "orders")
         /\ CanHandOver(commit)
         /\ message_fails("inventory-group", "orders", commit, x)
    ELSE inventory_read(c, commit)

\* fulfillment-py process_order
fulfillment_process_order_chaos(fraud, commit, x) ==
    IF db_slowdown_at(x).raised # ""
    THEN /\ HasNext("fulfillment-group", "orders")
         /\ CanHandOver(commit)
         /\ message_fails("fulfillment-group", "orders", commit, x)
    ELSE fulfillment_process_order(fraud, commit)

\* a connection that its handler dropped without conn.close() is closed
\* when the runtime finalizes the object, at a time of its choosing
connection_finalized ==
    /\ conns.dropped > 0
    /\ conns' = [conns EXCEPT !.dropped = @ - 1]
    /\ UNCHANGED <<SagaVarsButConns, chaos>>

NextSites ==
    \/ \E <<p, q>> \in OrderInputs, x \in SiteChaos : place_order_chaos(p, q, x)
    \/ \E <<p, q>> \in OrderInputs, x, at_orders \in SiteChaos :
          checkout(p, q, x, at_orders)
    \/ \E id \in OrderIdInputs, x \in SiteChaos : create_shipment_chaos(id, x)
    \/ \E c \in InvConsumers, commit \in BOOLEAN, x \in SiteChaos :
          inventory_process_order_chaos(c, commit, x)
    \/ \E c \in InvConsumers : inventory_write(c)
    \/ \E fraud, commit \in BOOLEAN, x \in SiteChaos :
          fulfillment_process_order_chaos(fraud, commit, x)
    \/ connection_finalized

\* the handlers that call apply_db_slowdown, under every outcome of the call
SpecSites == Init /\ [][NextSites]_vars

(***************************************************************************)
(* create_shipment statement by statement: the INSERT and its commit, then *)
(* the two sends, each a step of its own, with other requests in between.  *)
(***************************************************************************)
\* create_shipment's sends of a handler that announces on order-updates
\* first
create_shipment_sends_swapped(t) ==
    << <<"order-updates", Fmt2(t.order_id, S("SHIPMENT_CREATED"))>>,
       <<"shipments", Fmt3(t.shipment_id, t.order_id, S("CREATED"))>> >>

\* the send_to_kafka calls of create_shipment, in program order
create_shipment_sends(t) ==
    << <<"shipments", Fmt3(t.shipment_id, t.order_id, S("CREATED"))>>,
       <<"order-updates", Fmt2(t.order_id, S("SHIPMENT_CREATED"))>> >>

\* create_shipment up to conn.close()
create_shipment_insert(order_id) ==
    /\ requests < MaxRequests
    /\ requests' = requests + 1
    /\ shipments' = shipment_inserted(order_id)
    /\ shipTask' = shipTask \cup
          {[shipment_id |-> new_shipment_id, order_id |-> order_id, sent |-> 0]}
    /\ UNCHANGED <<orders, inventory, topics, invTask, brokerUp, procs,
                   producer, conns, chaos, applied, cancelRequests,
                   reservations, warnings>>

\* the next send_to_kafka of the request; a send that raises ends the try
\* block, and after the last send the request returns
create_shipment_send(t) ==
    /\ t \in shipTask
    /\ IF brokerUp
       THEN LET next == create_shipment_sends(t)[t.sent + 1] IN
            /\ topics' = send_to_kafka(topics, next[1], next[2])
            /\ shipTask' = IF t.sent + 1 = Len(create_shipment_sends(t))
                           THEN shipTask \ {t}
                           ELSE (shipTask \ {t}) \cup
                                   {[t EXCEPT !.sent = @ + 1]}
       ELSE /\ shipTask' = shipTask \ {t}
            /\ UNCHANGED topics
    /\ UNCHANGED <<orders, inventory, shipments, invTask, brokerUp, procs,
                   producer, conns, chaos, applied, cancelRequests,
                   reservations, warnings, requests>>

NextSteps ==
    \/ \E <<p, q>> \in OrderInputs : place_order(p, q)
    \/ \E id \in OrderIdInputs : create_shipment_insert(id)
    \/ \E t \in shipTask : create_shipment_send(t)
    \/ \E id \in ShipmentIdInputs : ship_shipment(id)
    \/ \E id \in ShipmentIdInputs : deliver_shipment(id)
    \/ \E commit \in BOOLEAN : process_order_update(commit)

\* the Shipping Processor with create_shipment statement by statement
SpecSteps == Init /\ [][NextSteps]_vars

(***************************************************************************)
(* The consumers of topic orders under fair scheduling and without         *)
(* transport failures: every offset commit arrives.  A consumer loop       *)
(* ("for message in consumer") that has a message to handle handles it.    *)
(***************************************************************************)
NextLive ==
    \/ \E <<p, q>> \in OrderInputs : place_order(p, q)
    \/ \E c \in InvConsumers : inventory_read(c, TRUE)
    \/ \E c \in InvConsumers : inventory_write(c)
    \/ \E fraud \in BOOLEAN : fulfillment_process_order(fraud, TRUE)

FairLive ==
    /\ WF_vars(\E c \in InvConsumers : inventory_read(c, TRUE))
    /\ \A c \in InvConsumers : WF_vars(inventory_write(c))
    /\ WF_vars(\E fraud \in BOOLEAN : fulfillment_process_order(fraud, TRUE))

SpecLive == Init /\ [][NextLive]_vars /\ FairLive

(***************************************************************************)
(* The saga up to the reservation under fair scheduling and without        *)
(* failures: one consumer of the Inventory Service, and the Fulfillment     *)
(* Service's consumer of topics orders and order-updates.                  *)
(***************************************************************************)
NextSaga ==
    \/ \E <<p, q>> \in OrderInputs : place_order(p, q)
    \/ inventory_read(1, TRUE)
    \/ inventory_write(1)
    \/ \E fraud \in BOOLEAN : fulfillment_process_order(fraud, TRUE)
    \/ process_order_update(TRUE)

FairSaga ==
    /\ WF_vars(inventory_read(1, TRUE))
    /\ WF_vars(inventory_write(1))
    /\ WF_vars(\E fraud \in BOOLEAN : fulfillment_process_order(fraud, TRUE))
    /\ WF_vars(process_order_update(TRUE))

SpecSaga == Init /\ [][NextSaga]_vars /\ FairSaga

(***************************************************************************)
(* The Shipping Receiver's call of the processor under every outcome of    *)
(* requests.post(..., timeout=60) and raise_for_status().                  *)
(***************************************************************************)
\* "created": the processor answers 201; "Timeout": no answer within 60 s;
\* "RequestException": no connection, or an answer of 4xx/5xx
CallOutcomes == {"created", "Timeout", "RequestException"}

\* the topics after an except branch of a receiver that puts the message
\* back on its topic
after_failed_call_requeued(tp, message) ==
    send_to_kafka(tp, "inventory-reserved", message)

\* the topics after except requests.exceptions.Timeout / RequestException:
\* logger.error only
after_failed_call(tp, message) == tp

\* what the except branches log
call_failure_logged(order_id, outcome) ==
    IF outcome = "Timeout"
    THEN <<"process_inventory_reserved",
           S("Shipping processor timeout for order") \o order_id>>
    ELSE <<"process_inventory_reserved",
           S("Failed to create shipment for order") \o order_id>>

\* process_inventory_reserved, the consumer loop's body; reached: the
\* processor ran create_shipment although the receiver got no answer in
\* time (a request that fails otherwise has written nothing: the processor
\* answers 500 only before its INSERT is committed)
process_inventory_reserved_call(commit, outcome, reached) ==
    /\ HasNext("shipping-receiver-group", "inventory-reserved")
    /\ CanHandOver(commit)
    /\ reached => outcome = "Timeout"
    /\ LET message == NextMessage("shipping-receiver-group", "inventory-reserved")
           handed == HandOver(topics, "shipping-receiver-group",
                              "inventory-reserved", commit)
           order_id == split(message)[1]
       IN  IF ~calls_processor(message) \/ outcome = "created"
           THEN outcome = "created" /\ process_inventory_reserved(commit)
           ELSE /\ requests' = Counted(commit)
                /\ warnings' = warnings \cup
                                  {call_failure_logged(order_id, outcome)}
                /\ shipments' = IF reached THEN shipment_inserted(order_id)
                                ELSE shipments
                /\ topics' = after_failed_call(
                                 IF reached
                                 THEN shipment_announced(handed, order_id)
                                 ELSE handed, message)
                /\ UNCHANGED <<orders, inventory, invTask, brokerUp, procs,
                               producer, conns, chaos, shipTask, applied,
                               cancelRequests, reservations>>

NextCalls ==
    \/ \E <<p, q>> \in OrderInputs : place_order(p, q)
    \/ \E c \in InvConsumers : inventory_read(c, TRUE)
    \/ \E c \in InvConsumers : inventory_write(c)
    \/ \E commit, reached \in BOOLEAN, outcome \in CallOutcomes :
          process_inventory_reserved_call(commit, outcome, reached)

SpecCalls == Init /\ [][NextCalls]_vars

(***************************************************************************)
(* Start-up.  A process runs initialize() when its module is imported: it  *)
(* polls the store, then starts kafka_consumer_thread, which polls the bus *)
(* before it enters its loop.  An attempt succeeds from the moment the     *)
(* store / the bus answers.                                                *)
(***************************************************************************)
max_retries_db == 30
max_retries_kafka == 60

\* the attempt at which the store or the bus first answers; 0: never
ReadyAt == {0, 1, 2, 30, 31, 60, 61}

RECURSIVE poll_one_more(_, _, _)
\* poll of a loop that gives up only after attempt max_retries + 1
poll_one_more(i, max_retries, ready_at) ==
    IF i > max_retries
    THEN [attempts |-> i, ok |-> FALSE]
    ELSE IF ready_at # 0 /\ i + 1 >= ready_at
         THEN [attempts |-> i + 1, ok |-> TRUE]
         ELSE poll_one_more(i + 1, max_retries, ready_at)

RECURSIVE poll(_, _, _)
\* for i in range(max_retries): try: ...; break  except: time.sleep(2)
\* from iteration i on: how many attempts were made and whether one
\* succeeded
poll(i, max_retries, ready_at) ==
    IF i >= max_retries
    THEN [attempts |-> i, ok |-> FALSE]
    ELSE IF ready_at # 0 /\ i + 1 >= ready_at
         THEN [attempts |-> i + 1, ok |-> TRUE]
         ELSE poll(i + 1, max_retries, ready_at)

\* seeded of a statement that adds the seed quantity to an existing row
seeded_additive(inv) ==
    [p \in DOMAIN inv \cup DOMAIN SeedInventory |->
        IF p \in DOMAIN SeedInventory
        THEN (IF p \in DOMAIN inv THEN inv[p] ELSE 0) + SeedInventory[p]
        ELSE inv[p]]

\* table inventory after init_db_tables / seed_inventory:
\* INSERT ... ON CONFLICT (product_name) DO UPDATE SET quantity = EXCLUDED.quantity
seeded(inv) ==
    [p \in DOMAIN inv \cup DOMAIN SeedInventory |->
        IF p \in DOMAIN SeedInventory THEN SeedInventory[p] ELSE inv[p]]

\* the consumer of a service whose initialize() starts the thread only
\* after a successful initialisation of the store
consumer_after_initialize_strict(svc, db) ==
    IF HasConsumer(svc) /\ db.ok THEN "connecting" ELSE "none"

\* consumer_thread.start() after the polling loop, whatever its outcome
consumer_after_initialize(svc, db) ==
    IF HasConsumer(svc) THEN "connecting" ELSE "none"

\* a process of the service starts (between two messages and two requests):
\* initialize()
initialize(svc, ready_at) ==
    /\ requests < MaxRequests
    /\ requests' = requests + 1
    /\ svc = "inventory" => \A c \in InvConsumers : invTask[c].pc = "idle"
    /\ \E db \in {IF HasStore(svc) THEN poll(0, max_retries_db, ready_at)
                  ELSE NotPolled} :
       LET consumer == consumer_after_initialize(svc, db)
       IN  /\ procs' = [procs EXCEPT ![svc] =
                           [consumer |-> consumer,
                            threads |-> IF consumer = "connecting" THEN 1 ELSE 0,
                            db |-> db, bus |-> NotPolled]]
           /\ inventory' = IF db.ok THEN seeded(inventory) ELSE inventory
    /\ UNCHANGED <<orders, shipments, topics, invTask, brokerUp, producer,
                   conns, applied, cancelRequests, reservations, warnings,
                   chaos, shipTask>>

\* kafka_consumer_thread up to its loop
kafka_consumer_thread(svc, ready_at) ==
    /\ procs[svc].consumer = "connecting"
    /\ \E bus \in {poll(0, max_retries_kafka, ready_at)} :
       procs' = [procs EXCEPT ![svc].bus = bus,
                              ![svc].consumer = IF bus.ok THEN "consuming"
                                                ELSE "exited"]
    /\ UNCHANGED <<orders, inventory, shipments, topics, invTask, brokerUp,
                   producer, conns, applied, cancelRequests, reservations,
                   warnings, requests, chaos, shipTask>>

NextBoot ==
    \/ \E svc \in Services, ready_at \in ReadyAt : initialize(svc, ready_at)
    \/ \E svc \in Services, ready_at \in ReadyAt :
          kafka_consumer_thread(svc, ready_at)
    \/ \E <<p, q>> \in OrderInputs : place_order(p, q)
    \/ inventory_read(1, TRUE)
    \/ inventory_write(1)
    \/ \E fraud \in BOOLEAN : fulfillment_process_order(fraud, TRUE)

\* processes starting next to the consumers of topic orders
SpecBoot == Init /\ [][NextBoot]_vars

(***************************************************************************)
(* get_kafka_producer statement by statement, in the threads of one        *)
(* process (request handlers of a threaded server, the consumer thread):   *)
(* the test of the global, the construction and assignment, the return.    *)
(***************************************************************************)
\* if _kafka_producer is None:
get_kafka_producer_test(t) ==
    /\ producer.pc[t] = "idle"
    /\ producer' = [producer EXCEPT !.pc[t] = IF producer.handle = 0
                                              THEN "construct" ELSE "return"]
    /\ UNCHANGED <<SagaVarsButProducer, chaos>>

\* _kafka_producer = KafkaProducer(...)
get_kafka_producer_construct(t) ==
    /\ producer.pc[t] = "construct"
    /\ producer' = [producer EXCEPT !.constructed = @ + 1,
                                    !.handle = producer.constructed + 1,
                                    !.pc[t] = "return"]
    /\ UNCHANGED <<SagaVarsButProducer, chaos>>

\* return _kafka_producer
get_kafka_producer_return(t) ==
    /\ producer.pc[t] = "return"
    /\ producer' = [producer EXCEPT !.returned[t] = producer.handle,
                                    !.pc[t] = "idle"]
    /\ UNCHANGED <<SagaVarsButProducer, chaos>>

NextProducer ==
    \/ \E t \in Threads : get_kafka_producer_test(t)
    \/ \E t \in Threads : get_kafka_producer_construct(t)
    \/ \E t \in Threads : get_kafka_producer_return(t)

\* the threads of a process calling get_kafka_producer
SpecProducer == Init /\ [][NextProducer]_vars

(***************************************************************************)
(* Orders with any quantity the handler accepts.                           *)
(***************************************************************************)
\* quantity = data.get('quantity', 1) goes into the INSERT as it is: every
\* integer passes (the column is INTEGER)
OrderInputsUnchecked ==
    OrderInputs \cup { <<"Gadget Y", 0>>, <<"Gadget Y", -1>> }

NextInputs ==
    \/ \E <<p, q>> \in OrderInputsUnchecked : place_order(p, q)
    \/ \E c \in InvConsumers : inventory_read(c, TRUE)
    \/ \E c \in InvConsumers : inventory_write(c)

SpecInputs == Init /\ [][NextInputs]_vars

(***************************************************************************)
(* The consumer loops with payloads of any bytes on their topics.  The     *)
(* KafkaConsumer deserializes a record when the loop fetches it, in the    *)
(* for statement: before, and outside, the try block of the loop's body.   *)
(***************************************************************************)
ForeignPayloads == ForeignMessages \cup {Undecodable}

\* the subscriptions of the three consumers
ConsumerSubscriptions == { s \in Subscriptions : s[1] # "(no group)" }

\* for message in consumer: value_deserializer raises UnicodeDecodeError,
\* which leaves the for statement and ends kafka_consumer_thread
consumer_deserialize_fails(group, topic) ==
    /\ Fetched(group, topic)
    /\ ~decodes(Head(topics[<<group, topic>>]))
    /\ procs' = [procs EXCEPT ![ServiceOf(group)].consumer = "exited"]
    /\ UNCHANGED <<orders, inventory, shipments, topics, invTask, brokerUp,
                   producer, conns, applied, cancelRequests, reservations,
                   warnings, requests, chaos, shipTask>>

NextPayloads ==
    \/ \E <<p, q>> \in OrderInputs : place_order(p, q)
    \/ \E t \in ForeignTopics, m \in ForeignPayloads : foreign_publish(t, m)
    \/ \E fraud \in BOOLEAN : fulfillment_process_order(fraud, TRUE)
    \/ process_order_update(TRUE)
    \/ process_inventory_reserved(TRUE)
    \/ \E s \in ConsumerSubscriptions : consumer_deserialize_fails(s[1], s[2])

SpecPayloads == Init /\ [][NextPayloads]_vars

(***************************************************************************)
(* The three fault-injection functions in one process environment: each    *)
(* call reads its pair with os.environ.get.                                *)
(***************************************************************************)
EnvNames ==
    {"SLOWDOWN_RATE", "SLOWDOWN_DELAY", "DB_SLOWDOWN_RATE",
     "DB_SLOWDOWN_DELAY", "MSG_SLOWDOWN_RATE", "MSG_SLOWDOWN_DELAY"}

\* os.environ: every variable unset or set to 50
Environs == [EnvNames -> {None, "50"}]

\* the pair of apply_slowdown
slowdown_pair(environ) ==
    <<environ["SLOWDOWN_RATE"], environ["SLOWDOWN_DELAY"]>>

\* the pair of an apply_db_slowdown that takes its rate from SLOWDOWN_RATE
db_slowdown_pair_shared_rate(environ) ==
    <<environ["SLOWDOWN_RATE"], environ["DB_SLOWDOWN_DELAY"]>>

\* the pair of apply_db_slowdown
db_slowdown_pair(environ) ==
    <<environ["DB_SLOWDOWN_RATE"], environ["DB_SLOWDOWN_DELAY"]>>

\* the pair of apply_msg_slowdown
msg_slowdown_pair(environ) ==
    <<environ["MSG_SLOWDOWN_RATE"], environ["MSG_SLOWDOWN_DELAY"]>>

ChaosFunctions == {"apply_slowdown", "apply_db_slowdown", "apply_msg_slowdown"}

\* what fn does when called in environ
called_in(fn, environ, draw, query_fails) ==
    CASE fn = "apply_slowdown" ->
            apply_slowdown(slowdown_pair(environ)[1],
                           slowdown_pair(environ)[2], draw)
      [] fn = "apply_db_slowdown" ->
            apply_db_slowdown(db_slowdown_pair(environ)[1],
                              db_slowdown_pair(environ)[2], draw, TRUE,
                              query_fails)
      [] fn = "apply_msg_slowdown" ->
            apply_msg_slowdown(msg_slowdown_pair(environ)[1],
                               msg_slowdown_pair(environ)[2], draw)

\* a service calls fn in environ
call_in(fn, environ, draw, query_fails) ==
    /\ query_fails => fn = "apply_db_slowdown"
    /\ chaos' = [fn |-> fn, environ |-> environ, draw |-> draw,
                 query_fails |-> query_fails,
                 result |-> called_in(fn, environ, draw, query_fails)]
    /\ UNCHANGED SagaVars

NextEnviron ==
    \E fn \in ChaosFunctions, environ \in Environs, draw \in Draws,
       query_fails \in BOOLEAN : call_in(fn, environ, draw, query_fails)

SpecEnviron == Init /\ [][NextEnviron]_vars

(***************************************************************************)
(* The two handlers that parse text, fed with payloads of two and more     *)
(* colon-free fields: "{id}:{status}" followed by nothing, by further      *)
(* fields or by a trailing colon.  The fields include the empty string.    *)
(***************************************************************************)
TextIds == { S("o1"), UnknownOrderId, << >> }
TextStatuses == { S("PAID"), S("RESERVED"), << >> }
\* statuses that only the payloads of more than two fields carry
TextStatusesLong == { S("HELD"), S("RESERVED") }
\* what follows the second field
TextRests == { <<":", "x">>, <<":">>, <<":", "x", ":", "y">> }

TextMessages ==
    { Fmt2(id, st) : id \in TextIds, st \in TextStatuses }
    \cup { Fmt2(id, st) \o rest :
              id \in TextIds, st \in TextStatusesLong, rest \in TextRests }

NextText ==
    \/ \E <<p, q>> \in OrderInputs : place_order(p, q)
    \/ \E t \in ForeignTopics, m \in TextMessages : foreign_publish(t, m)
    \/ \E commit \in BOOLEAN : process_order_update(commit)
    \/ \E commit \in BOOLEAN : process_inventory_reserved(commit)

SpecText == Init /\ [][NextText]_vars

(***************************************************************************)
(* The consumer callbacks with their fault injection.  A callback that     *)
(* calls fault-injection functions before it first uses the store or       *)
(* another service leaves in chaos which callback it was, for which        *)
(* message, and those calls in program order.  y and z are what the calls  *)
(* find: the pair in the environment and the draw.                         *)
(***************************************************************************)
MsgChaos ==
    { [rate_str |-> None, delay_str |-> None, draw |-> 0],
      [rate_str |-> "100", delay_str |-> "50", draw |-> 0] }

\* apply_msg_slowdown(f"order {order_id[:8]}")
msg_slowdown_call(y) ==
    ChaosCall("apply_msg_slowdown", y.rate_str, y.delay_str, y.draw, TRUE,
              FALSE, apply_msg_slowdown(y.rate_str, y.delay_str, y.draw))

\* apply_slowdown(f"order {order_id[:8]}")
slowdown_call(z) ==
    ChaosCall("apply_slowdown", z.rate_str, z.delay_str, z.draw, TRUE,
              FALSE, apply_slowdown(z.rate_str, z.delay_str, z.draw))

callback(handler, message, calls) ==
    [fn |-> "callback", handler |-> handler, message |-> message,
     calls |-> calls]

\* inventory-py process_order up to the SELECT ... FROM inventory
inventory_process_order_msg(c, commit, y) ==
    /\ invTask[c].pc = "idle"
    /\ HasNext("inventory-group", "orders")
    /\ CanHandOver(commit)
    /\ LET order_id == NextMessage("inventory-group", "orders") IN
       /\ chaos' = callback("inventory-py process_order", order_id,
                            <<msg_slowdown_call(y)>>)
       /\ topics' = HandOver(topics, "inventory-group", "orders", commit)
       /\ requests' = Counted(commit)
       /\ IF order_id \in DOMAIN orders
          THEN LET product == orders[order_id].product IN
               /\ conns' = [conns EXCEPT !.held = @ + 1]
               /\ invTask' = [invTask EXCEPT ![c] =
                   [pc |-> "checked", order_id |-> order_id,
                    product |-> product,
                    quantity |-> orders[order_id].quantity,
                    inv_row |-> IF product \in DOMAIN inventory
                                THEN <<inventory[product]>> ELSE << >>]]
          ELSE UNCHANGED <<invTask, conns>>
    /\ UNCHANGED <<orders, inventory, shipments, brokerUp, procs, producer,
                   shipTask, applied, cancelRequests, reservations, warnings>>

\* fulfillment-py process_order
fulfillment_process_order_msg(fraud, commit, y) ==
    /\ HasNext("fulfillment-group", "orders")
    /\ CanHandOver(commit)
    /\ LET order_id == NextMessage("fulfillment-group", "orders") IN
       /\ chaos' = callback("fulfillment-py process_order", order_id,
                            <<msg_slowdown_call(y)>>)
       /\ topics' = HandOver(topics, "fulfillment-group", "orders", commit)
       /\ requests' = Counted(commit)
       /\ orders' = fraud_checked(order_id, fraud)
       /\ applied' = IF order_id \in DOMAIN orders
                     THEN [applied EXCEPT ![order_id].op = "fraud"]
                     ELSE applied
    /\ UNCHANGED <<inventory, shipments, invTask, brokerUp, procs, producer,
                   conns, shipTask, cancelRequests, reservations, warnings>>

\* shipping-receiver-py process_inventory_reserved: the two returns come
\* before any call
process_inventory_reserved_msg(commit, y, z) ==
    /\ HasNext("shipping-receiver-group", "inventory-reserved")
    /\ CanHandOver(commit)
    /\ LET message == NextMessage("shipping-receiver-group",
                                  "inventory-reserved")
           handed == HandOver(topics, "shipping-receiver-group",
                              "inventory-reserved", commit)
       IN  /\ requests' = Counted(commit)
           /\ warnings' = IF Len(split(message)) < 2
                          THEN warnings \cup
                                  {<<"process_inventory_reserved", message>>}
                          ELSE warnings
           /\ IF calls_processor(message)
              THEN LET order_id == split(message)[1] IN
                   /\ chaos' = callback("process_inventory_reserved",
                                        message,
                                        <<msg_slowdown_call(y),
                                          slowdown_call(z)>>)
                   /\ shipments' = shipment_inserted(order_id)
                   /\ topics' = shipment_announced(handed, order_id)
              ELSE /\ topics' = handed
                   /\ UNCHANGED <<shipments, chaos>>
    /\ UNCHANGED <<orders, inventory, invTask, brokerUp, procs, producer,
                   conns, shipTask, applied, cancelRequests, reservations>>

\* process_order_update calls no fault-injection function: it is the
\* action of the saga as it stands
NextCallbacks ==
    \/ \E <<p, q>> \in OrderInputs : place_order(p, q)
    \/ \E commit \in BOOLEAN, y \in MsgChaos :
          inventory_process_order_msg(1, commit, y)
    \/ inventory_write(1)
    \/ \E fraud, commit \in BOOLEAN, y \in MsgChaos :
          fulfillment_process_order_msg(fraud, commit, y)
    \/ \E commit \in BOOLEAN : process_order_update(commit)
    \/ \E commit \in BOOLEAN, y, z \in MsgChaos :
          process_inventory_reserved_msg(commit, y, z)

SpecCallbacks == Init /\ [][NextCallbacks]_vars

(***************************************************************************)
(* Publishing on a bus that comes and goes.  place_order statement by      *)
(* statement: the INSERT and its commit, then the two sends of the try     *)
(* block, each a step of its own; a send that raises ends the try block    *)
(* and the request returns.  A request that has returned stays on record   *)
(* with what it sent and what it answered.  Next to it the consumers of    *)
(* topic orders, one of the Inventory Service and the one of the           *)
(* Fulfillment Service, without lost offset commits; order-updates keeps   *)
(* every message published on it.                                          *)
(***************************************************************************)
\* place_order's sends in the other order
place_order_sends_swapped(t) ==
    << <<"order-updates", Fmt2(t.order_id, S("CREATED"))>>,
       <<"orders", t.order_id>> >>

\* the send_to_kafka calls of place_order, in program order
place_order_sends(t) ==
    << <<"orders", t.order_id>>,
       <<"order-updates", Fmt2(t.order_id, S("CREATED"))>> >>

\* return jsonify({...}), 201
place_order_returned(t) ==
    [t EXCEPT !.pc = "returned",
              !.response = place_order_response(t.order_id)]

\* send_failed of a handler that guards each send on its own
send_failed_next_attempted(t) ==
    IF t.at < Len(place_order_sends(t))
    THEN [t EXCEPT !.at = @ + 1]
    ELSE place_order_returned(t)

\* except Exception as e: logger.error(...), and on to the return
send_failed(t) == place_order_returned(t)

\* place_order up to conn.close()
place_order_insert(product, quantity) ==
    LET order_id == new_order_id IN
    /\ requests < MaxRequests
    /\ requests' = requests + 1
    /\ orders' = order_inserted(product, quantity)
    /\ applied' = applied @@ (order_id :> [op |-> "place", update |-> << >>])
    /\ reservations' = reservations @@ (order_id :> << >>)
    /\ shipTask' = shipTask \cup
          {[order_id |-> order_id, at |-> 1, sent |-> << >>, pc |-> "try",
            response |-> [code |-> 0]]}
    /\ UNCHANGED <<inventory, shipments, topics, invTask, brokerUp, procs,
                   producer, conns, chaos, cancelRequests, warnings>>

\* the next send_to_kafka of the request
place_order_send(t) ==
    /\ t \in shipTask
    /\ t.pc = "try"
    /\ IF brokerUp
       THEN LET next == place_order_sends(t)[t.at]
                done == [t EXCEPT !.at = @ + 1, !.sent = Append(@, next)]
            IN  /\ topics' = send_to_kafka(topics, next[1], next[2])
                /\ shipTask' = (shipTask \ {t}) \cup
                      {IF t.at = Len(place_order_sends(t))
                       THEN place_order_returned(done) ELSE done}
       ELSE /\ shipTask' = (shipTask \ {t}) \cup {send_failed(t)}
            /\ UNCHANGED topics
    /\ UNCHANGED <<orders, inventory, shipments, invTask, brokerUp, procs,
                   producer, conns, chaos, applied, cancelRequests,
                   reservations, warnings, requests>>

\* the broker becomes unreachable, or reachable again
broker_changes ==
    /\ brokerUp' = ~brokerUp
    /\ IF brokerUp
       THEN requests < MaxRequests /\ requests' = requests + 1
       ELSE UNCHANGED requests
    /\ UNCHANGED <<orders, inventory, shipments, topics, invTask, procs,
                   producer, conns, chaos, shipTask, applied, cancelRequests,
                   reservations, warnings>>

NextPublish ==
    \/ \E <<p, q>> \in OrderInputs : place_order_insert(p, q)
    \/ \E t \in shipTask : place_order_send(t)
    \/ broker_changes
    \/ inventory_read(1, TRUE)
    \/ inventory_write(1)
    \/ \E fraud \in BOOLEAN : fulfillment_process_order(fraud, TRUE)

SpecPublish == Init /\ [][NextPublish]_vars

(***************************************************************************)
(* The Inventory Service on a bus that comes and goes: place_order, the    *)
(* consumers of inventory-group with lost offset commits, and the          *)
(* Fulfillment consumer of topic orders.  Nobody consumes                  *)
(* inventory-reserved, which keeps every message published on it.         *)
(***************************************************************************)
NextReserve ==
    \/ \E <<p, q>> \in OrderInputs : place_order(p, q)
    \/ broker_changes
    \/ \E c \in InvConsumers, commit \in BOOLEAN : inventory_read(c, commit)
    \/ \E c \in InvConsumers : inventory_write(c)
    \/ \E fraud \in BOOLEAN : fulfillment_process_order(fraud, TRUE)

SpecReserve == Init /\ [][NextReserve]_vars

(***************************************************************************)
(* Messages that name an order id without a row, on topics orders and      *)
(* order-updates, next to orders of a product with and without an          *)
(* inventory row.                                                          *)
(***************************************************************************)
UnknownPublishes ==
    { <<"orders", UnknownOrderId>>,
      <<"order-updates", Fmt2(UnknownOrderId, S("SHIPPED"))>> }

NextUnknown ==
    \/ \E <<p, q>> \in OrderInputs : place_order(p, q)
    \/ \E <<t, m>> \in UnknownPublishes : foreign_publish(t, m)
    \/ \E commit \in BOOLEAN : inventory_read(1, commit)
    \/ inventory_write(1)
    \/ \E fraud, commit \in BOOLEAN : fulfillment_process_order(fraud, commit)
    \/ \E commit \in BOOLEAN : process_order_update(commit)

SpecUnknown == Init /\ [][NextUnknown]_vars

(***************************************************************************)
(* Vocabulary of the properties.                                           *)
(***************************************************************************)
Range(seq) == { seq[i] : i \in 1..Len(seq) }

FulfillmentUpdates == <<"fulfillment-group", "order-updates">>
ReceiverReserved == <<"shipping-receiver-group", "inventory-reserved">>
ShipmentsLog == <<"(no group)", "shipments">>
FulfillmentOrders == <<"fulfillment-group", "orders">>
InventoryOrders == <<"inventory-group", "orders">>

\* the step publishes message on topic: every group subscribed gets it
Published(topic, message) ==
    \A s \in Subscriptions :
        s[2] = topic => topics'[s] = Append(topics[s], message)

\* the step publishes nothing on topic
NothingPublished(topic) ==
    \A s \in Subscriptions : s[2] = topic => topics'[s] = topics[s]

\* no message is waiting for a consumer and no consumer is within a message
Quiescent ==
    /\ \A s \in Subscriptions : s[2] # "shipments" => topics[s] = << >>
    /\ \A c \in InvConsumers : invTask[c].pc = "idle"

OrderStates ==
    { S("PENDING"), S("FRAUD_CHECK_PASSED"), S("FRAUD_DETECTED"),
      S("INVENTORY_RESERVED"), S("OUT_OF_STOCK"), S("SHIPMENT_CREATED"),
      S("SHIPPED"), S("DELIVERED"), S("CANCELLED") }

TerminalStates == { S("DELIVERED"), S("CANCELLED") }

ShipmentRank(status) ==
    CASE status = S("CREATED") -> 1
      [] status = S("SHIPPED") -> 2
      [] status = S("DELIVERED") -> 3
      [] OTHER -> 0

(***************************************************************************)
(* C1.  In every reachable state the quantity of every inventory row is    *)
(* >= 0, also when several Inventory consumers run process_order at the    *)
(* same time for orders of one product that jointly exceed its stock.      *)
(* Stated for the runs in which no order is decided twice, so that a      *)
(* violation is due to different orders and not to a duplicate delivery.   *)
(* Violated: two consumers both read 5 for Gadget Y and both subtract 3.   *)
(***************************************************************************)
C1_InventoryNeverNegative ==
    (\A o \in DOMAIN reservations : Len(reservations[o]) <= 1)
        => \A p \in DOMAIN inventory : inventory[p] >= 0

(***************************************************************************)
(* C2.  A process_order run of the Inventory Service during which the      *)
(* level it read did not change, for an order of product p and quantity q  *)
(* with stock a: if q <= a the stock becomes a - q, "{id}:RESERVED" goes   *)
(* on inventory-reserved and "{id}:INVENTORY_RESERVED" on order-updates;   *)
(* otherwise (q > a, or no row for p) the inventory is unchanged,          *)
(* "{id}:OUT_OF_STOCK" goes on order-updates and nothing on                *)
(* inventory-reserved.  The new level is never anything but a or a - q.    *)
(***************************************************************************)
C2_LevelStillAsRead(t) ==
    t.inv_row = IF t.product \in DOMAIN inventory
                THEN <<inventory[t.product]>> ELSE << >>

C2_Outcome(t) ==
    IF t.product \in DOMAIN inventory /\ t.quantity <= inventory[t.product]
    THEN /\ inventory' = [p \in DOMAIN inventory |->
                             IF p = t.product
                             THEN inventory[p] - t.quantity ELSE inventory[p]]
         /\ Published("inventory-reserved", t.order_id \o <<":", "RESERVED">>)
         /\ Published("order-updates",
                      t.order_id \o <<":", "INVENTORY_RESERVED">>)
    ELSE /\ inventory' = inventory
         /\ Published("order-updates", t.order_id \o <<":", "OUT_OF_STOCK">>)
         /\ NothingPublished("inventory-reserved")

C2_ReservationDeterministic ==
    [][ \A c \in InvConsumers :
          (inventory_write(c) /\ C2_LevelStillAsRead(invTask[c]))
             => C2_Outcome(invTask[c]) ]_vars

\* one order of Gadget Y was reserved (5 - 3 = 2) and a later one, asking
\* for 3 of the remaining 2, was answered OUT_OF_STOCK
C2_Witness ==
    /\ inventory["Gadget Y"] = 2
    /\ \E o1, o2 \in DOMAIN orders :
          /\ orders[o1].product = "Gadget Y" /\ orders[o2].product = "Gadget Y"
          /\ reservations[o1] = <<"RESERVED">>
          /\ reservations[o2] = <<"OUT_OF_STOCK">>
          /\ Fmt2(o2, S("OUT_OF_STOCK")) \in Range(topics[FulfillmentUpdates])
          /\ Fmt2(o1, S("RESERVED")) \in Range(topics[ReceiverReserved])

(***************************************************************************)
(* C3.  As claimed: once nothing is in flight, an order's status is the    *)
(* status field of the order-updates message last applied to it.           *)
(* Violated: the fraud check and cancel_order write the status without an  *)
(* order-updates message being applied.                                    *)
(***************************************************************************)
C3_StatusIsLastAppliedUpdate ==
    \A o \in DOMAIN orders :
        (Quiescent /\ applied[o].update # << >>)
            => orders[o].status = applied[o].update[1]

(***************************************************************************)
(* C3, amended.  Once nothing is in flight, an order's status is what the  *)
(* operation last applied to its row wrote: the status field of the        *)
(* message if that was an order-updates message, FRAUD_DETECTED or         *)
(* FRAUD_CHECK_PASSED if it was the fraud check, CANCELLED if it was a     *)
(* cancel request, PENDING if nothing was applied since place_order.       *)
(***************************************************************************)
C3_StatusIsLastWrite ==
    \A o \in DOMAIN orders :
        Quiescent =>
            CASE applied[o].op = "update" ->
                    orders[o].status = applied[o].update[1]
              [] applied[o].op = "fraud" ->
                    orders[o].status \in
                        { S("FRAUD_DETECTED"), S("FRAUD_CHECK_PASSED") }
              [] applied[o].op = "cancel" ->
                    orders[o].status = S("CANCELLED")
              [] applied[o].op = "place" ->
                    orders[o].status = S("PENDING")

\* nothing is in flight, and the fraud check was applied to an order after
\* the last order-updates message for it
C3_Witness ==
    /\ Quiescent
    /\ \E o \in DOMAIN orders :
          /\ applied[o].op = "fraud"
          /\ applied[o].update # << >>
          /\ orders[o].status # applied[o].update[1]

(***************************************************************************)
(* C4.  Delivering an orders message twice to the Inventory Service        *)
(* leaves the same as delivering it once: for each order at most one       *)
(* decision is taken, so its quantity is deducted at most once and its     *)
(* reservation events are those of one delivery.                           *)
(* Violated: process_order decides again on every delivery.                *)
(***************************************************************************)
C4_DuplicateDeliveryTolerated ==
    \A o \in DOMAIN reservations : Len(reservations[o]) <= 1

(***************************************************************************)
(* C5.  In every reachable state the id of each order row is referenced by *)
(* at most one shipment row.                                               *)
(* Violated: create_shipment inserts a row on every call.                  *)
(***************************************************************************)
C5_AtMostOneShipmentPerOrder ==
    \A o \in DOMAIN orders :
        \A s1, s2 \in DOMAIN shipments :
            (shipments[s1].order_id = o /\ shipments[s2].order_id = o)
                => s1 = s2

(***************************************************************************)
(* C6.  A shipment's status only moves forward along CREATED -> SHIPPED -> *)
(* DELIVERED: no step moves it to an earlier stage, and a shipment becomes *)
(* DELIVERED only from SHIPPED.                                            *)
(* Violated: ship_shipment and deliver_shipment write their status         *)
(* whatever the current one is.                                            *)
(***************************************************************************)
C6_ShipmentStatusForwardOnly ==
    [][ \A s \in DOMAIN shipments :
          /\ ShipmentRank(shipments'[s].status)
                >= ShipmentRank(shipments[s].status)
          /\ (shipments'[s].status = S("DELIVERED")
                /\ shipments[s].status # S("DELIVERED"))
                => shipments[s].status = S("SHIPPED") ]_vars

(***************************************************************************)
(* C7.  An order-updates message with fewer than two colon-delimited       *)
(* fields is dropped by process_order_update: the step changes no row of   *)
(* any table, publishes nothing, and the message is not put back: it is    *)
(* gone from the group's messages unless the bus lost the offset commit.   *)
(***************************************************************************)
C7_Malformed(message) == Len(split(message)) < 2

C7_MalformedUpdateDropped ==
    [][ \A commit \in BOOLEAN :
          (process_order_update(commit)
             /\ C7_Malformed(Head(topics[FulfillmentUpdates])))
          => /\ orders' = orders
             /\ inventory' = inventory
             /\ shipments' = shipments
             /\ \A s \in Subscriptions \ {FulfillmentUpdates} :
                   topics'[s] = topics[s]
             /\ topics'[FulfillmentUpdates] =
                   IF commit THEN Tail(topics[FulfillmentUpdates])
                   ELSE topics[FulfillmentUpdates] ]_vars

\* a message without a colon that names an existing order id was on
\* order-updates and Fulfillment has consumed it
C7_Witness ==
    /\ S("o1") \in DOMAIN orders
    /\ <<"process_order_update", S("o1")>> \in warnings

(***************************************************************************)
(* C8.  cancel_order on an order id that has no row answers 404, changes   *)
(* no row of any table and publishes nothing on any topic.                 *)
(***************************************************************************)
C8_CancelUnknownOrder ==
    [][ \A id \in OrderIdInputs :
          (cancel_order(id) /\ id \notin DOMAIN orders)
          => /\ cancel_order_response(id).code = 404
             /\ orders' = orders
             /\ inventory' = inventory
             /\ shipments' = shipments
             /\ topics' = topics ]_vars

\* cancel_order was called for an id that has no row
C8_Witness ==
    \E id \in cancelRequests : id \notin DOMAIN orders

(***************************************************************************)
(* C9.  A cancel request for an existing order in a non-terminal status    *)
(* sets the order's status to CANCELLED and publishes "{id}:CANCELLED" on  *)
(* order-updates; and an order's status is CANCELLED only if cancel_order  *)
(* was called for it.                                                      *)
(***************************************************************************)
C9_CancelSetsAndPublishes ==
    [][ /\ \A id \in DOMAIN orders :
             (cancel_order(id) /\ orders[id].status \notin TerminalStates)
             => /\ orders'[id].status = S("CANCELLED")
                /\ Published("order-updates", id \o <<":", "CANCELLED">>)
        /\ \A id \in DOMAIN orders' :
             orders'[id].status = S("CANCELLED") => id \in cancelRequests'
      ]_vars

\* an order that Fulfillment had marked was cancelled, and its CANCELLED
\* message is on order-updates
C9_Witness ==
    \E id \in DOMAIN orders :
        /\ id \in cancelRequests
        /\ orders[id].status = S("CANCELLED")
        /\ applied[id].op = "cancel"
        /\ applied[id].update # << >>
        /\ Fmt2(id, S("CANCELLED")) \in Range(topics[FulfillmentUpdates])

(***************************************************************************)
(* C10.  With only the services' own messages on the topics, the status    *)
(* of every order row is one of PENDING, FRAUD_CHECK_PASSED,               *)
(* FRAUD_DETECTED, INVENTORY_RESERVED, OUT_OF_STOCK, SHIPMENT_CREATED,     *)
(* SHIPPED, DELIVERED, CANCELLED.                                          *)
(* Violated: place_order publishes "{id}:CREATED" on order-updates and     *)
(* Fulfillment writes CREATED into the row.                                *)
(***************************************************************************)
C10_StatusEnumerated ==
    \A o \in DOMAIN orders : orders[o].status \in OrderStates

(***************************************************************************)
(* C11.  Each of apply_slowdown, apply_db_slowdown and apply_msg_slowdown  *)
(* is a no-op whenever either half of its rate/delay pair is absent or is  *)
(* not a number: it returns False, raises nothing, sleeps for no time and  *)
(* runs no query.                                                          *)
(* Violated: apply_db_slowdown turns the ValueError of int() into a        *)
(* RuntimeError.                                                           *)
(***************************************************************************)
C11_Number(str) == str \in { "0", "50", "100", "-5", "2.5" }

C11_DisabledIsNoOp ==
    (/\ chaos.fn \in {"apply_slowdown", "apply_db_slowdown",
                      "apply_msg_slowdown"}
     /\ (~C11_Number(chaos.rate_str) \/ ~C11_Number(chaos.delay_str)))
    => /\ chaos.result.raised = ""
       /\ chaos.result.returned = FALSE
       /\ chaos.result.slept = 0
       /\ chaos.result.iterations = 0

(***************************************************************************)
(* C12.  As claimed: a call of apply_slowdown or apply_msg_slowdown with   *)
(* a pair of numbers configured, the rate an integer, applies the delay    *)
(* (returns True, having slept delay ms) exactly when the draw scaled to   *)
(* [0,100) is strictly below the rate: always for rate 100, never for      *)
(* rate 0.                                                                 *)
(* Violated: a delay that is negative or not an integer is never applied.  *)
(***************************************************************************)
C12_DelayAppliedIffDrawBelowRate ==
    (/\ chaos.fn \in {"apply_slowdown", "apply_msg_slowdown"}
     /\ C11_Number(chaos.rate_str) /\ C11_Number(chaos.delay_str)
     /\ is_int(chaos.rate_str))
    => /\ chaos.result.returned = (chaos.draw < int(chaos.rate_str))
       /\ chaos.rate_str = "100" => chaos.result.returned
       /\ chaos.rate_str = "0" => ~chaos.result.returned

(***************************************************************************)
(* C12, amended.  A call of apply_slowdown or apply_msg_slowdown with a    *)
(* pair of integers configured, the delay >= 0, applies the delay (returns *)
(* True, having slept delay ms) exactly when the draw scaled to [0,100) is *)
(* strictly below the rate: always for rate 100, never for rate 0.  With a *)
(* number that is not an integer in the pair, or a negative delay, no call *)
(* applies a delay: it returns False and raises nothing.                   *)
(***************************************************************************)
C12_IntegerPairAppliedIffDrawBelowRate ==
    (/\ chaos.fn \in {"apply_slowdown", "apply_msg_slowdown"}
     /\ C11_Number(chaos.rate_str) /\ C11_Number(chaos.delay_str))
    => IF /\ is_int(chaos.rate_str) /\ is_int(chaos.delay_str)
          /\ int(chaos.delay_str) >= 0
       THEN /\ chaos.result.returned = (chaos.draw < int(chaos.rate_str))
            /\ chaos.result.slept =
                  IF chaos.result.returned THEN int(chaos.delay_str) ELSE 0
            /\ chaos.result.raised = ""
            /\ chaos.rate_str = "100" => chaos.result.returned
            /\ chaos.rate_str = "0" => ~chaos.result.returned
       ELSE /\ chaos.result.returned = FALSE
            /\ chaos.result.slept = 0
            /\ chaos.result.raised = ""

\* apply_msg_slowdown was called with rate 100 and delay 50, drew the
\* highest value and slept 50 ms
C12_Witness ==
    /\ chaos.fn = "apply_msg_slowdown"
    /\ chaos.rate_str = "100" /\ chaos.delay_str = "50"
    /\ chaos.draw = 99
    /\ chaos.result.returned /\ chaos.result.slept = 50

(***************************************************************************)
(* C13.  At every call site of apply_db_slowdown, when the call raises,    *)
(* the operation that follows it is not performed: the step changes no     *)
(* row of any table and publishes nothing.                                 *)
(* Violated: checkout catches the error and goes on to place the order.    *)
(***************************************************************************)
C13_Raises(x) == db_slowdown_at(x).raised # ""

C13_NothingFollows ==
    /\ orders' = orders
    /\ inventory' = inventory
    /\ shipments' = shipments
    /\ invTask' = invTask
    /\ \A s \in Subscriptions : Len(topics'[s]) <= Len(topics[s])

C13_DbSlowdownFailsClosed ==
    [][ \A x \in SiteChaos : C13_Raises(x) =>
          /\ \A <<p, q>> \in OrderInputs :
                /\ place_order_chaos(p, q, x) => C13_NothingFollows
                /\ \A at_orders \in SiteChaos :
                      checkout(p, q, x, at_orders) => C13_NothingFollows
          /\ \A id \in OrderIdInputs :
                create_shipment_chaos(id, x) => C13_NothingFollows
          /\ \A c \in InvConsumers, commit \in BOOLEAN :
                inventory_process_order_chaos(c, commit, x)
                   => C13_NothingFollows
          /\ \A fraud, commit \in BOOLEAN :
                fulfillment_process_order_chaos(fraud, commit, x)
                   => C13_NothingFollows ]_vars

(***************************************************************************)
(* C14.  The Shipping Receiver calls the Shipping Processor's create       *)
(* operation only for inventory-reserved messages whose second field is    *)
(* exactly RESERVED, and then for the order id in the first field; for any *)
(* other status, or a message of fewer than two fields, no call is made:   *)
(* the step inserts no shipment, changes no row of any table, publishes    *)
(* nothing and only takes the message off the receiver's queue.            *)
(***************************************************************************)
C14_IsReserved(message) ==
    Len(split(message)) >= 2 /\ split(message)[2] = <<"RESERVED">>

C14_ReceiverCallsOnlyForReserved ==
    [][ \A commit \in BOOLEAN :
          process_inventory_reserved(commit) =>
             LET message == Head(topics[ReceiverReserved]) IN
             IF C14_IsReserved(message)
             THEN \E id \in DOMAIN shipments' \ DOMAIN shipments :
                     /\ DOMAIN shipments' = DOMAIN shipments \cup {id}
                     /\ shipments'[id].order_id = split(message)[1]
             ELSE /\ shipments' = shipments
                  /\ orders' = orders
                  /\ inventory' = inventory
                  /\ \A s \in Subscriptions \ {ReceiverReserved} :
                        topics'[s] = topics[s]
                  /\ topics'[ReceiverReserved] =
                        IF commit THEN Tail(topics[ReceiverReserved])
                        ELSE topics[ReceiverReserved] ]_vars

\* the receiver has dropped the message abc, and has had a shipment made
\* for an order that Inventory reserved
C14_Witness ==
    /\ <<"process_inventory_reserved", S("abc")>> \in warnings
    /\ \E id \in DOMAIN shipments :
          /\ shipments[id].order_id \in DOMAIN orders
          /\ reservations[shipments[id].order_id] = <<"RESERVED">>

(***************************************************************************)
(* C15.  create_shipment inserts and commits a shipment row with status    *)
(* CREATED for the given order id before it publishes anything, then       *)
(* publishes "{shipmentId}:{orderId}:CREATED" on shipments and after it    *)
(* "{orderId}:SHIPMENT_CREATED" on order-updates; every CREATED message on *)
(* shipments names a shipment row that exists, with the message's order    *)
(* id.                                                                     *)
(***************************************************************************)
C15_CreatedMessage(t) ==
    t.shipment_id \o <<":">> \o t.order_id \o <<":", "CREATED">>

C15_InsertThenPublish ==
    [][ /\ \A order_id \in OrderIdInputs :
             create_shipment_insert(order_id) =>
                /\ \E id \in DOMAIN shipments' \ DOMAIN shipments :
                      /\ shipments'[id].order_id = order_id
                      /\ shipments'[id].status = <<"CREATED">>
                /\ topics' = topics
        /\ \A t \in shipTask :
             (create_shipment_send(t) /\ t.sent = 0) =>
                /\ t.shipment_id \in DOMAIN shipments
                /\ Published("shipments", C15_CreatedMessage(t))
                /\ NothingPublished("order-updates")
        /\ \A t \in shipTask :
             (create_shipment_send(t) /\ t.sent = 1) =>
                /\ C15_CreatedMessage(t) \in Range(topics[ShipmentsLog])
                /\ Published("order-updates",
                             t.order_id \o <<":", "SHIPMENT_CREATED">>)
                /\ NothingPublished("shipments")
        /\ \A m \in Range(topics'[ShipmentsLog]) :
             split(m)[3] = <<"CREATED">> =>
                /\ split(m)[1] \in DOMAIN shipments'
                /\ shipments'[split(m)[1]].order_id = split(m)[2]
      ]_vars

\* one request has returned with both messages out, and a second one for
\* the same order is between its INSERT and its first send
C15_Witness ==
    \E t \in shipTask :
        /\ t.sent = 0
        /\ t.shipment_id \in DOMAIN shipments
        /\ \E id \in DOMAIN shipments :
              /\ id # t.shipment_id
              /\ Fmt3(id, t.order_id, S("CREATED")) \in Range(topics[ShipmentsLog])
              /\ Fmt2(t.order_id, S("SHIPMENT_CREATED"))
                    \in Range(topics[FulfillmentUpdates])

(***************************************************************************)
(* C16.  ship_shipment and deliver_shipment on an existing shipment set    *)
(* its status to SHIPPED / DELIVERED, leave every other row alone, and     *)
(* publish "{shipmentId}:{orderId}:<status>" on shipments and              *)
(* "{orderId}:<status>" on order-updates; on a shipment id that has no row *)
(* they answer 404, change no row and publish nothing.                     *)
(***************************************************************************)
C16_Advanced(id, status) ==
    IF id \in DOMAIN shipments
    THEN LET order_id == shipments[id].order_id IN
         /\ advance_response(id, <<status>>).code = 200
         /\ DOMAIN shipments' = DOMAIN shipments
         /\ shipments'[id].status = <<status>>
         /\ shipments'[id].order_id = order_id
         /\ \A other \in DOMAIN shipments \ {id} :
               shipments'[other] = shipments[other]
         /\ orders' = orders
         /\ inventory' = inventory
         /\ Published("shipments",
                      id \o <<":">> \o order_id \o <<":", status>>)
         /\ Published("order-updates", order_id \o <<":", status>>)
    ELSE /\ advance_response(id, <<status>>).code = 404
         /\ shipments' = shipments
         /\ orders' = orders
         /\ inventory' = inventory
         /\ topics' = topics

C16_ShipAndDeliverPublish ==
    [][ \A id \in ShipmentIdInputs :
          /\ ship_shipment(id) => C16_Advanced(id, "SHIPPED")
          /\ deliver_shipment(id) => C16_Advanced(id, "DELIVERED") ]_vars

\* the shipment the receiver had made for an order was shipped, and both
\* SHIPPED messages are out
C16_Witness ==
    \E id \in DOMAIN shipments :
        LET order_id == shipments[id].order_id IN
        /\ order_id \in DOMAIN orders
        /\ shipments[id].status = S("SHIPPED")
        /\ id \o <<":">> \o order_id \o <<":", "SHIPPED">>
              \in Range(topics[ShipmentsLog])
        /\ order_id \o <<":", "SHIPPED">> \in Range(topics[FulfillmentUpdates])

(***************************************************************************)
(* C17.  On an orders message for an existing order the Fulfillment        *)
(* Service writes FRAUD_DETECTED or FRAUD_CHECK_PASSED, as drawn, into     *)
(* that order's status, changes no other row and publishes nothing; and no *)
(* message whose status field is FRAUD_DETECTED or FRAUD_CHECK_PASSED is   *)
(* ever on order-updates.                                                  *)
(***************************************************************************)
C17_FraudStates == { <<"FRAUD_DETECTED">>, <<"FRAUD_CHECK_PASSED">> }

C17_FraudWrittenNotPublished ==
    [][ /\ \A fraud, commit \in BOOLEAN :
             fulfillment_process_order(fraud, commit) =>
                LET order_id == Head(topics[FulfillmentOrders]) IN
                /\ order_id \in DOMAIN orders =>
                      /\ orders'[order_id].status =
                            IF fraud THEN <<"FRAUD_DETECTED">>
                            ELSE <<"FRAUD_CHECK_PASSED">>
                      /\ orders'[order_id].status \in C17_FraudStates
                      /\ \A other \in DOMAIN orders \ {order_id} :
                            orders'[other] = orders[other]
                /\ inventory' = inventory
                /\ shipments' = shipments
                /\ \A s \in Subscriptions \ {FulfillmentOrders} :
                      topics'[s] = topics[s]
                /\ topics'[FulfillmentOrders] =
                      IF commit THEN Tail(topics[FulfillmentOrders])
                      ELSE topics[FulfillmentOrders]
        /\ \A m \in Range(topics'[FulfillmentUpdates]) :
              Len(split(m)) >= 2 => split(m)[2] \notin C17_FraudStates
      ]_vars

\* the fraud check has marked an order FRAUD_DETECTED while updates for
\* orders are waiting on order-updates
C17_Witness ==
    \E o \in DOMAIN orders :
        /\ applied[o].op = "fraud"
        /\ orders[o].status = S("FRAUD_DETECTED")
        /\ topics[FulfillmentUpdates] # << >>

(***************************************************************************)
(* C18.  Fan-out of topic orders: a message published on orders is given   *)
(* to the Inventory Service and to the Fulfillment Service; a step of one  *)
(* of them takes the message off its own group's queue only, never off     *)
(* the other's; and every order placed is eventually handled by the        *)
(* Inventory Service (once: one decision) and by the Fulfillment Service.  *)
(***************************************************************************)
C18_OrderIds == { <<OrderIdTokens[i]>> : i \in 1..MaxRequests }

C18_OrdersFanOut ==
    /\ [][ /\ \A <<p, q>> \in OrderInputs :
                place_order(p, q) =>
                   /\ topics'[InventoryOrders] =
                         Append(topics[InventoryOrders], new_order_id)
                   /\ topics'[FulfillmentOrders] =
                         Append(topics[FulfillmentOrders], new_order_id)
           /\ \A c \in InvConsumers :
                inventory_read(c, TRUE) =>
                   /\ topics'[InventoryOrders] = Tail(topics[InventoryOrders])
                   /\ topics'[FulfillmentOrders] = topics[FulfillmentOrders]
           /\ \A fraud \in BOOLEAN :
                fulfillment_process_order(fraud, TRUE) =>
                   /\ topics'[FulfillmentOrders] = Tail(topics[FulfillmentOrders])
                   /\ topics'[InventoryOrders] = topics[InventoryOrders]
           /\ \A o \in DOMAIN reservations' : Len(reservations'[o]) <= 1
         ]_vars
    /\ \A o \in C18_OrderIds :
          (o \in DOMAIN orders)
             ~> (o \in DOMAIN orders /\ Len(reservations[o]) = 1)
    /\ \A o \in C18_OrderIds :
          (o \in DOMAIN orders)
             ~> (o \in DOMAIN orders /\ applied[o].op = "fraud")

\* an order has been decided by the Inventory Service and marked by the
\* Fulfillment Service
C18_Witness ==
    \E o \in DOMAIN orders :
        /\ Len(reservations[o]) = 1
        /\ applied[o].op = "fraud"
        /\ topics[InventoryOrders] = << >>
        /\ topics[FulfillmentOrders] = << >>

(***************************************************************************)
(* C19.  Every message published on order-updates is given to, and so      *)
(* consumed by, both the Fulfillment Service and the Inventory Service:    *)
(* once a message has been published on order-updates, each of the two     *)
(* consumer groups has a subscription to the topic.                        *)
(* Violated: the Inventory Service subscribes to orders only.              *)
(***************************************************************************)
C19_UpdateConsumers == { "fulfillment-group", "inventory-group" }

C19_UpdatesConsumedByBoth ==
    (\E o \in DOMAIN orders : applied[o].op = "place")
        => \A g \in C19_UpdateConsumers : <<g, "order-updates">> \in DOMAIN topics

(***************************************************************************)
(* C20.  Under fair scheduling and without transport failures: an order    *)
(* for a product with stock a and quantity q <= a, with no other order for *)
(* the product, leads to a state where the product's level is a - q and    *)
(* "{id}:RESERVED" is on inventory-reserved, unless another order for the  *)
(* product is placed in the meantime.                                      *)
(***************************************************************************)
C20_Alone(o) ==
    \A other \in DOMAIN orders \ {o} : orders[other].product # orders[o].product

C20_InStock(o) ==
    /\ orders[o].product \in DOMAIN inventory
    /\ orders[o].quantity <= inventory[orders[o].product]

C20_Reserved(o) ==
    /\ orders[o].product \in DOMAIN inventory
    /\ inventory[orders[o].product] =
          SeedInventory[orders[o].product] - orders[o].quantity
    /\ o \o <<":", "RESERVED">> \in Range(topics[ReceiverReserved])

C20_Waiting(o) ==
    IF o \in DOMAIN orders
    THEN reservations[o] = << >> /\ C20_Alone(o) /\ C20_InStock(o)
    ELSE FALSE

C20_Done(o) ==
    IF o \in DOMAIN orders
    THEN C20_Reserved(o) \/ ~C20_Alone(o)
    ELSE FALSE

C20_OrderLeadsToReservation ==
    \A o \in C18_OrderIds : C20_Waiting(o) ~> C20_Done(o)

\* the only order for Gadget Y, of 3 out of 5, was reserved while an
\* order for another product was there as well
C20_Witness ==
    \E o \in DOMAIN orders :
        /\ orders[o].product = "Gadget Y"
        /\ C20_Alone(o)
        /\ Cardinality(DOMAIN orders) = 2
        /\ inventory["Gadget Y"] = 2
        /\ reservations[o] = <<"RESERVED">>
        /\ Fmt2(o, S("RESERVED")) \in Range(topics[ReceiverReserved])

(***************************************************************************)
(* C21.  Under fair scheduling and without failures, every created order   *)
(* leads to a state where its status is INVENTORY_RESERVED,                *)
(* FRAUD_CHECK_PASSED or FRAUD_DETECTED.                                   *)
(***************************************************************************)
C21_Observable ==
    { S("INVENTORY_RESERVED"), S("FRAUD_CHECK_PASSED"), S("FRAUD_DETECTED") }

\* the order as place_order stores it
C21_Created(o) ==
    IF o \in DOMAIN orders THEN orders[o].status = S("PENDING") ELSE FALSE

C21_Observed(o) ==
    IF o \in DOMAIN orders THEN orders[o].status \in C21_Observable ELSE FALSE

C21_StatusEventuallyObservable ==
    \A o \in C18_OrderIds : C21_Created(o) ~> C21_Observed(o)

\* an order went through the fraud check and then took the status of its
\* reservation, while an order for a product without stock sits at a
\* status of the fraud check
C21_Witness ==
    \E o, p \in DOMAIN orders :
        /\ orders[o].status = S("INVENTORY_RESERVED")
        /\ reservations[o] = <<"RESERVED">>
        /\ reservations[p] = <<"OUT_OF_STOCK">>
        /\ orders[p].status \in { S("FRAUD_CHECK_PASSED"), S("FRAUD_DETECTED") }

(***************************************************************************)
(* C22.  A create-shipment call of the Shipping Receiver that times out or *)
(* fails is dropped: the step writes neither inventory nor orders, the     *)
(* receiver publishes nothing (no retry, no compensation: what reaches the *)
(* topics is at most the processor's own announcement of a shipment it     *)
(* created after all), at most one shipment is created, and with the       *)
(* offset committed the next message of inventory-reserved is the next one *)
(* the receiver handles.                                                   *)
(***************************************************************************)
C22_ProcessorAnnounced(reached, order_id) ==
    IF reached
    THEN /\ Published("shipments", Fmt3(new_shipment_id, order_id, S("CREATED")))
         /\ Published("order-updates", Fmt2(order_id, S("SHIPMENT_CREATED")))
         /\ DOMAIN shipments' = DOMAIN shipments \cup {new_shipment_id}
    ELSE /\ NothingPublished("shipments")
         /\ NothingPublished("order-updates")
         /\ shipments' = shipments

C22_FailedCallDropped ==
    [][ \A commit, reached \in BOOLEAN, outcome \in {"Timeout", "RequestException"} :
          ( /\ HasNext("shipping-receiver-group", "inventory-reserved")
            /\ calls_processor(NextMessage("shipping-receiver-group",
                                           "inventory-reserved"))
            /\ process_inventory_reserved_call(commit, outcome, reached) )
          => LET message == NextMessage("shipping-receiver-group",
                                        "inventory-reserved")
             IN  /\ inventory' = inventory
                 /\ orders' = orders
                 /\ reservations' = reservations
                 /\ NothingPublished("orders")
                 /\ topics'[ReceiverReserved] =
                       IF commit THEN Tail(topics[ReceiverReserved])
                       ELSE topics[ReceiverReserved]
                 /\ C22_ProcessorAnnounced(reached, split(message)[1])
      ]_vars

\* a call for a reserved order failed: the level stays decremented, no
\* shipment exists, the order is as it was and the queue is empty
C22_Witness ==
    \E o \in DOMAIN orders :
        /\ reservations[o] = <<"RESERVED">>
        /\ call_failure_logged(o, "RequestException") \in warnings
        /\ inventory[orders[o].product] < SeedInventory[orders[o].product]
        /\ shipments = << >>
        /\ topics[ReceiverReserved] = << >>
        /\ orders[o].status = S("PENDING")

(***************************************************************************)
(* C23.  Start-up polling terminates: initialize() ends after the first    *)
(* successful attempt at the store or after 30 failed ones, and            *)
(* kafka_consumer_thread leaves its polling after the first successful     *)
(* attempt at the bus or after 60 failed ones.                             *)
(***************************************************************************)
C23_Polled(ready_at, most) ==
    [attempts |-> IF ready_at \in 1..most THEN ready_at ELSE most,
     ok |-> ready_at \in 1..most]

C23_StartupPollingBounded ==
    [][ \A svc \in Services :
          procs'[svc] # procs[svc] =>
             \A ready_at \in ReadyAt :
                /\ \/ procs'[svc].db = C23_Polled(ready_at, 30)
                   \/ ~HasStore(svc)
                   \/ ~initialize(svc, ready_at)
                /\ \/ /\ procs'[svc].bus = C23_Polled(ready_at, 60)
                      /\ procs'[svc].consumer \in {"consuming", "exited"}
                   \/ ~kafka_consumer_thread(svc, ready_at)
      ]_vars

\* a process gave up the store after 30 attempts and the bus after 60,
\* another found the store at its second attempt
C23_Witness ==
    \E svc, other \in Services :
        /\ procs[svc].db = [attempts |-> 30, ok |-> FALSE]
        /\ procs[svc].bus = [attempts |-> 60, ok |-> FALSE]
        /\ procs[other].db = [attempts |-> 2, ok |-> TRUE]

(***************************************************************************)
(* C24.  A process that has exhausted its attempts at the store still      *)
(* starts its consumer thread; one that has exhausted its attempts at the  *)
(* bus has no consumer any more: the thread has exited, no step starts it  *)
(* again and no message of its group's topics is handled while the process *)
(* lives.  Every process of a consuming service has started exactly one    *)
(* consumer thread.                                                        *)
(***************************************************************************)
C24_Queues(svc) ==
    { s \in Subscriptions : s[1] # "(no group)" /\ ServiceOf(s[1]) = svc }

\* the step is initialize() of a new process of the service
C24_Initialized(svc) ==
    procs'[svc] # procs[svc] /\ procs'[svc].bus = NotPolled

C24_NothingConsumed(svc) ==
    \A s \in C24_Queues(svc) :
        /\ Len(topics'[s]) >= Len(topics[s])
        /\ SubSeq(topics'[s], 1, Len(topics[s])) = topics[s]

C24_StoreNonFatalBusFatal ==
    [][ \A svc \in Services :
          /\ (C24_Initialized(svc) /\ HasConsumer(svc))
                => procs'[svc].consumer = "connecting"
          /\ procs'[svc].bus = [attempts |-> 60, ok |-> FALSE]
                => procs'[svc].consumer = "exited"
          /\ procs[svc].consumer = "exited"
                => \/ C24_Initialized(svc)
                   \/ /\ procs'[svc] = procs[svc]
                      /\ C24_NothingConsumed(svc)
          /\ procs'[svc].threads = IF HasConsumer(svc) THEN 1 ELSE 0
      ]_vars

\* the Inventory Service gave up the store and then the bus: an order
\* that the Fulfillment Service has checked waits on topic orders for it
C24_Witness ==
    /\ procs["inventory"].db = [attempts |-> 30, ok |-> FALSE]
    /\ procs["inventory"].bus = [attempts |-> 60, ok |-> FALSE]
    /\ procs["inventory"].consumer = "exited"
    /\ procs["inventory"].threads = 1
    /\ \E o \in DOMAIN orders :
          /\ topics[InventoryOrders] = <<o>>
          /\ applied[o].op = "fraud"

C26_ConnectionsReleased ==
    /\ conns.dropped = 0
    /\ conns.held = Cardinality({ c \in InvConsumers : invTask[c].pc = "checked" })

(***************************************************************************)
(* C27.  The quantity of every product in table inventory never increases: *)
(* no step of any service, start-up included, raises it.                   *)
(***************************************************************************)
C27_InventoryNeverIncreases ==
    [][ \A p \in DOMAIN inventory : inventory'[p] <= inventory[p] ]_vars

(***************************************************************************)
(* C28.  Every row of table orders has a quantity that is a positive       *)
(* integer.                                                                *)
(***************************************************************************)
C28_QuantityPositive ==
    \A o \in DOMAIN orders : orders[o].quantity > 0

(***************************************************************************)
(* C29.  No message stops a consumer loop, whatever its payload and        *)
(* whatever happens while it is handled: the consumer of every consuming   *)
(* service stays in its loop.                                              *)
(***************************************************************************)
C29_ConsumerLoopsSurvive ==
    \A svc \in Services : HasConsumer(svc) => procs[svc].consumer = "consuming"

(***************************************************************************)
(* C30.  What a call of a slowdown function does depends on the draw and   *)
(* on the function's own pair of variables only: it is what the same call  *)
(* does in any environment with the same own pair, whatever the other two  *)
(* pairs are and whatever was called before.                               *)
(***************************************************************************)
C30_OwnNames(fn) ==
    CASE fn = "apply_slowdown" -> {"SLOWDOWN_RATE", "SLOWDOWN_DELAY"}
      [] fn = "apply_db_slowdown" -> {"DB_SLOWDOWN_RATE", "DB_SLOWDOWN_DELAY"}
      [] fn = "apply_msg_slowdown" -> {"MSG_SLOWDOWN_RATE", "MSG_SLOWDOWN_DELAY"}

C31_Ids == TextIds \cup DOMAIN orders
C31_Statuses == TextStatuses \cup TextStatusesLong \cup {S("CREATED")}
C31_Rests == TextRests \cup {<< >>}

C31_RoundTrip ==
    [][ /\ \A id \in C31_Ids, st \in C31_Statuses :
              split(Fmt2(id, st)) = <<id, st>>
        /\ \A commit \in BOOLEAN :
              process_order_update(commit) =>
                 LET m == NextMessage("fulfillment-group", "order-updates") IN
                 \A id \in C31_Ids, st \in C31_Statuses, rest \in C31_Rests :
                    m = Fmt2(id, st) \o rest =>
                       /\ warnings' = warnings
                       /\ DOMAIN orders' = DOMAIN orders
                       /\ \A o \in DOMAIN orders :
                             orders'[o] = IF o = id
                                          THEN [orders[o] EXCEPT !.status = st]
                                          ELSE orders[o]
        /\ \A commit \in BOOLEAN :
              process_inventory_reserved(commit) =>
                 LET m == NextMessage("shipping-receiver-group",
                                      "inventory-reserved") IN
                 \A id \in C31_Ids, rest \in C31_Rests :
                    m = Fmt2(id, S("RESERVED")) \o rest =>
                       /\ warnings' = warnings
                       /\ \E s \in DOMAIN shipments' \ DOMAIN shipments :
                             shipments'[s].order_id = id ]_vars

\* a payload of more than two fields was applied to an order with its
\* second field as the status
C31_Witness ==
    \E o \in DOMAIN orders :
       /\ orders[o].status = S("HELD")
       /\ applied[o] = [op |-> "update", update |-> <<S("HELD")>>]

(***************************************************************************)
(* C32.  Every consumer callback that goes on to use the store or to call  *)
(* another service for a message has called apply_msg_slowdown for that    *)
(* message first: process_order of Inventory and of Fulfillment,           *)
(* process_order_update of Fulfillment, process_inventory_reserved of the  *)
(* Shipping Receiver.                                                      *)
(* Violated: process_order_update selects and updates the order row        *)
(* without any call of apply_msg_slowdown.                                 *)
(***************************************************************************)
C32_Consulted(message) ==
    /\ chaos'.fn = "callback"
    /\ chaos'.message = message
    /\ \E i \in 1..Len(chaos'.calls) :
          /\ chaos'.calls[i].fn = "apply_msg_slowdown"
          /\ \A j \in 1..(i - 1) : chaos'.calls[j].fn # "apply_db_slowdown"

C32_MsgSlowdownBeforeActing ==
    [][ /\ (\E commit \in BOOLEAN, y \in MsgChaos :
               inventory_process_order_msg(1, commit, y))
           => C32_Consulted(NextMessage("inventory-group", "orders"))
        /\ (\E fraud, commit \in BOOLEAN, y \in MsgChaos :
               fulfillment_process_order_msg(fraud, commit, y))
           => C32_Consulted(NextMessage("fulfillment-group", "orders"))
        /\ (\E commit \in BOOLEAN, y, z \in MsgChaos :
               /\ process_inventory_reserved_msg(commit, y, z)
               /\ calls_processor(NextMessage("shipping-receiver-group",
                                              "inventory-reserved")))
           => C32_Consulted(NextMessage("shipping-receiver-group",
                                        "inventory-reserved"))
        /\ (\E commit \in BOOLEAN :
               /\ process_order_update(commit)
               /\ Len(split(NextMessage("fulfillment-group",
                                        "order-updates"))) >= 2)
           => C32_Consulted(NextMessage("fulfillment-group",
                                        "order-updates")) ]_vars

(***************************************************************************)
(* C33.  init_db_tables is idempotent and leaves orders and shipments      *)
(* alone: a start of a process changes no row of table orders and no row   *)
(* of table shipments, and the inventory it leaves is one that a second    *)
(* init_db_tables right after it would leave as it is.                     *)
(***************************************************************************)
C33_InitDbTablesIdempotent ==
    [][ \/ requests' = requests
        \/ topics' # topics
        \/ ~(\E svc \in Services, ready_at \in ReadyAt :
                initialize(svc, ready_at))
        \/ /\ orders' = orders
           /\ shipments' = shipments
           /\ \/ inventory' = inventory
              \/ /\ inventory' = seeded(inventory)
                 /\ seeded(inventory') = inventory' ]_vars

\* a process started and ran init_db_tables on a store that held an order
\* and a decremented level: the level is the seed level again
C33_Witness ==
    /\ \E o \in DOMAIN orders : reservations[o] = <<"RESERVED">>
    /\ inventory = SeedInventory
    /\ \E svc \in Services : procs[svc] # Started(svc) /\ procs[svc].db.ok

(***************************************************************************)
(* C34.  Persist before publish.  Every order id waiting on topic orders   *)
(* has a row in table orders; the step that publishes an order id on       *)
(* topic orders finds the row already committed; and the step that         *)
(* publishes "{id}:CREATED" on order-updates belongs to a request that     *)
(* has already published id on topic orders.                               *)
(***************************************************************************)
C34_PersistBeforePublish ==
    [][ /\ \A s \in Subscriptions :
              s[2] = "orders" =>
                 \A i \in 1..Len(topics'[s]) : topics'[s][i] \in DOMAIN orders'
        /\ \A id \in DOMAIN orders' :
              Published("orders", id) =>
                 /\ id \in DOMAIN orders
                 /\ orders[id].status = S("PENDING")
        /\ \A id \in DOMAIN orders' :
              Published("order-updates", Fmt2(id, S("CREATED"))) =>
                 \E t \in shipTask :
                    /\ t.order_id = id
                    /\ t.sent = << <<"orders", id>> >> ]_vars

\* a request has published both messages and returned; the order has a row
C34_Witness ==
    \E t \in shipTask :
       /\ t.pc = "returned"
       /\ Len(t.sent) = 2
       /\ t.order_id \in DOMAIN orders
       /\ Fmt2(t.order_id, S("CREATED")) \in Range(topics[FulfillmentUpdates])

(***************************************************************************)
(* C35.  Reservation accounting.  For every product, the seed level minus  *)
(* the current level is at least the sum of the quantities of the orders   *)
(* of that product named by the "{id}:RESERVED" messages published on      *)
(* inventory-reserved: a RESERVED message is never published without the   *)
(* decrement, and a decrement whose publish failed is kept.                *)
(***************************************************************************)
RECURSIVE C35_Reserved(_, _)
\* the quantities of product p in the first n messages of inventory-reserved
C35_Reserved(p, n) ==
    IF n = 0
    THEN 0
    ELSE LET parts == split(topics[ReceiverReserved][n])
             q == IF /\ Len(parts) >= 2
                     /\ parts[2] = S("RESERVED")
                     /\ parts[1] \in DOMAIN orders
                     /\ orders[parts[1]].product = p
                  THEN orders[parts[1]].quantity ELSE 0
         IN  q + C35_Reserved(p, n - 1)

C35_ReservationAccounting ==
    \A p \in DOMAIN SeedInventory :
       SeedInventory[p] - inventory[p]
          >= C35_Reserved(p, Len(topics[ReceiverReserved]))

\* the level of Gadget Y was decremented for an order whose RESERVED
\* message was not published: the decrement is kept
C35_Witness ==
    /\ inventory["Gadget Y"] = 2
    /\ topics[ReceiverReserved] = << >>
    /\ \E o \in DOMAIN orders : reservations[o] = <<"RESERVED">>
    /\ \A c \in InvConsumers : invTask[c].pc = "idle"

(***************************************************************************)
(* C40.  A publish failure never undoes or fails the operation that        *)
(* caused it.  A place_order request always returns 201 with the order as  *)
(* PENDING and its row committed.  A send of place_order that fails        *)
(* changes no table and no topic and ends the request, so that its         *)
(* remaining sends are never attempted; an order none of whose sends       *)
(* succeeded stays PENDING, is never decided by the Inventory Service and  *)
(* is named by no message on any topic.  An Inventory decision whose       *)
(* publish fails publishes nothing and keeps the decrement it committed.   *)
(***************************************************************************)
C40_Names(message, id) ==
    \E k \in 1..Len(split(message)) : split(message)[k] = id

C40_Returned ==
    \A t \in shipTask :
       t.pc = "returned" =>
          /\ t.response =
                [code |-> 201, id |-> t.order_id, status |-> S("PENDING")]
          /\ t.order_id \in DOMAIN orders
          /\ t.sent = << >> =>
                /\ orders[t.order_id].status = S("PENDING")
                /\ reservations[t.order_id] = << >>
                /\ \A s \in Subscriptions : \A i \in 1..Len(topics[s]) :
                      ~C40_Names(topics[s][i], t.order_id)

C40_PublishFailureKeepsOperation ==
    [][ /\ C40_Returned'
        /\ \A t \in shipTask :
              (place_order_send(t) /\ ~brokerUp) =>
                 /\ topics' = topics
                 /\ orders' = orders
                 /\ inventory' = inventory
                 /\ \E u \in shipTask' :
                       /\ u.order_id = t.order_id
                       /\ u.pc = "returned"
                       /\ u.sent = t.sent
        /\ (inventory_write(1) /\ ~brokerUp) =>
              LET t == invTask[1] IN
              /\ topics' = topics
              /\ orders' = orders
              /\ (t.inv_row # << >> /\ t.inv_row[1] >= t.quantity) =>
                    inventory' = [p \in DOMAIN inventory |->
                                     IF p = t.product
                                     THEN inventory[p] - t.quantity
                                     ELSE inventory[p]] ]_vars

\* the first send of a request failed and the request returned; the broker
\* is reachable again
C40_Witness ==
    /\ brokerUp
    /\ \E t \in shipTask : t.pc = "returned" /\ t.sent = << >>

(***************************************************************************)
(* C36.  The Inventory Service's decision for an order depends only on     *)
(* the product and quantity of the order's row and on the level read,      *)
(* never on the order's status: process_order takes up the message of an   *)
(* order in any status, and if the level read is at least the quantity it  *)
(* decrements the level and publishes RESERVED and INVENTORY_RESERVED,     *)
(* otherwise it publishes OUT_OF_STOCK, also for an order that is          *)
(* CANCELLED or FRAUD_DETECTED.  (A consumer takes up an order or decides  *)
(* one exactly in the steps that change its task.)                         *)
(***************************************************************************)
C36_Enough(t) == t.inv_row # << >> /\ t.inv_row[1] >= t.quantity

C36_ReservationIgnoresStatus ==
    [][ \A c \in InvConsumers :
           \/ invTask'[c] = invTask[c]
           \/ /\ (\E commit \in BOOLEAN : inventory_read(c, commit))
                 => LET o == NextMessage("inventory-group", "orders") IN
                    /\ invTask'[c].pc = "checked"
                    /\ invTask'[c].order_id = o
                    /\ invTask'[c].product = orders[o].product
                    /\ invTask'[c].quantity = orders[o].quantity
              /\ inventory_write(c)
                 => LET t == invTask[c] IN
                    /\ orders' = orders
                    /\ IF C36_Enough(t)
                       THEN /\ inventory' =
                                  [p \in DOMAIN inventory |->
                                      IF p = t.product
                                      THEN inventory[p] - t.quantity
                                      ELSE inventory[p]]
                            /\ Published("inventory-reserved",
                                         Fmt2(t.order_id, S("RESERVED")))
                            /\ Published("order-updates",
                                         Fmt2(t.order_id,
                                              S("INVENTORY_RESERVED")))
                       ELSE /\ inventory' = inventory
                            /\ Published("order-updates",
                                         Fmt2(t.order_id, S("OUT_OF_STOCK")))
                            /\ NothingPublished("inventory-reserved") ]_vars

\* an order was cancelled and after that the Inventory Service reserved
\* stock for it: CANCELLED was published before INVENTORY_RESERVED
C36_Witness ==
    \E o \in DOMAIN orders :
       /\ orders[o].status = S("CANCELLED")
       /\ reservations[o] = <<"RESERVED">>
       /\ inventory[orders[o].product]
             = SeedInventory[orders[o].product] - orders[o].quantity
       /\ \E i, j \in 1..Len(topics[FulfillmentUpdates]) :
             /\ i < j
             /\ topics[FulfillmentUpdates][i] = Fmt2(o, S("CANCELLED"))
             /\ topics[FulfillmentUpdates][j]
                   = Fmt2(o, S("INVENTORY_RESERVED"))

(***************************************************************************)
(* C37.  Once the status of an order is DELIVERED or CANCELLED, no step    *)
(* changes it: no cancel request, no fraud check and no order-updates      *)
(* message.                                                                *)
(* Violated: the fraud check and process_order_update write the status     *)
(* whatever it is.                                                         *)
(***************************************************************************)
C37_TerminalStatusFinal ==
    [][ \A o \in DOMAIN orders :
           orders[o].status \in TerminalStates
              => orders'[o].status = orders[o].status ]_vars

(***************************************************************************)
(* C38.  cancel_order changes nothing but the status of the row it         *)
(* addresses: every inventory level, every shipment row and every other    *)
(* order row, and the product and quantity of the addressed row, are the   *)
(* same after it.                                                          *)
(***************************************************************************)
C38_CancelChangesOnlyStatus ==
    [][ \A id \in OrderIdInputs :
           cancel_order(id) =>
              /\ inventory' = inventory
              /\ shipments' = shipments
              /\ DOMAIN orders' = DOMAIN orders
              /\ \A o \in DOMAIN orders :
                    orders'[o] = IF o = id
                                 THEN [orders[o] EXCEPT
                                          !.status = S("CANCELLED")]
                                 ELSE orders[o] ]_vars

\* an order was cancelled after stock was reserved and a shipment created
\* for it: the level is still the decremented one and the shipment is there
C38_Witness ==
    \E o \in DOMAIN orders :
       /\ orders[o].status = S("CANCELLED")
       /\ applied[o].op = "cancel"
       /\ reservations[o] = <<"RESERVED">>
       /\ inventory[orders[o].product]
             = SeedInventory[orders[o].product] - orders[o].quantity
       /\ \E s \in DOMAIN shipments : shipments[s].order_id = o

(***************************************************************************)
(* C39.  A message naming an order id that has no row is a no-op: the      *)
(* Fulfillment fraud check, process_order_update and the Inventory         *)
(* process_order each leave the three tables as they are, create no order  *)
(* row and publish nothing.  An order whose product has no inventory row   *)
(* gets OUT_OF_STOCK published, nothing on inventory-reserved, and the     *)
(* inventory stays as it is.                                               *)
(***************************************************************************)
C39_NoOp(group, topic) ==
    /\ orders' = orders
    /\ inventory' = inventory
    /\ shipments' = shipments
    /\ invTask' = invTask
    /\ \A s \in Subscriptions :
          topics'[s] = IF s = <<group, topic>>
                       THEN (IF topics'[s] = topics[s]
                             THEN topics[s] ELSE Tail(topics[s]))
                       ELSE topics[s]

C39_UnknownOrderIsNoOp ==
    [][ /\ \A commit \in BOOLEAN :
              (/\ inventory_read(1, commit)
               /\ NextMessage("inventory-group", "orders") \notin DOMAIN orders)
              => C39_NoOp("inventory-group", "orders")
        /\ \A fraud, commit \in BOOLEAN :
              (/\ fulfillment_process_order(fraud, commit)
               /\ NextMessage("fulfillment-group", "orders")
                     \notin DOMAIN orders)
              => C39_NoOp("fulfillment-group", "orders")
        /\ \A commit \in BOOLEAN :
              (/\ process_order_update(commit)
               /\ LET parts == split(NextMessage("fulfillment-group",
                                                 "order-updates"))
                  IN  Len(parts) >= 2 /\ parts[1] \notin DOMAIN orders)
              => C39_NoOp("fulfillment-group", "order-updates")
        /\ (inventory_write(1) /\ invTask[1].product \notin DOMAIN inventory)
              => /\ inventory' = inventory
                 /\ orders' = orders
                 /\ Published("order-updates",
                              Fmt2(invTask[1].order_id, S("OUT_OF_STOCK")))
                 /\ NothingPublished("inventory-reserved") ]_vars

\* the Inventory Service has taken a message naming an unknown order id
\* off topic orders (the Fulfillment Service still has it to come), and an
\* order of a product without inventory row was answered OUT_OF_STOCK
C39_Witness ==
    /\ UnknownOrderId \in Range(topics[FulfillmentOrders])
    /\ UnknownOrderId \notin Range(topics[InventoryOrders])
    /\ UnknownOrderId \notin DOMAIN orders
    /\ inventory = SeedInventory
    /\ \E o \in DOMAIN orders :
          /\ orders[o].product \notin DOMAIN inventory
          /\ reservations[o] = <<"OUT_OF_STOCK">>

====
